---- MODULE Spec2Model ----
(***************************************************************************)
(* Model of the file conversion engine of the "convert-file" Nemo action:  *)
(* target naming (FileManager), the cancellable process executor           *)
(* (CommandExecutor), the single conversion runner (Converter,             *)
(* ConversionManager, ProgressManager) and the batch orchestration         *)
(* (BatchAction, BatchStateManager, BatchFileProcessor).                   *)
(***************************************************************************)
EXTENDS Integers, Sequences, FiniteSets, TLC

(***************************************************************************)
(* Bounds of the model.                                                    *)
(***************************************************************************)
\* largest number of valid files of a batch
MaxFiles == 3
\* longest chained command plan (number of steps)
MaxSteps == 3
\* largest number of a numbered variant "base (k).ext" that may already exist
MaxCounter == 3

(***************************************************************************)
(* Program constants.                                                      *)
(***************************************************************************)
\* BatchFileProcessor.MAX_WORKERS
MAX_WORKERS == 1
\* BatchStateManager.MAX_CANCELLING_TIMEOUTS
MAX_CANCELLING_TIMEOUTS == 50
\* ProgressManager._max_cancelling_timeouts
PM_MAX_CANCELLING_TIMEOUTS == 50


(***************************************************************************)
(* File names.  A name is a sequence of text tokens; its string is their   *)
(* concatenation.  An extension is the token sequence of a registered      *)
(* format, so ".tar.gz" is <<".tar", ".gz">>.                              *)
(***************************************************************************)
\* the extensions of the formats registered in the format groups that the
\* names of the model can end with: PNG, JPG, BMP, TAR, TAR.GZ (GZ alone is
\* not registered)
KnownExtensions ==
    { <<".png">>, <<".jpg">>, <<".bmp">>, <<".tar">>, <<".tar", ".gz">> }

IsSuffix(s, t) ==
    /\ Len(s) <= Len(t)
    /\ \A i \in 1..Len(s) : t[Len(t) - Len(s) + i] = s[i]

DropLast(t, n) == SubSeq(t, 1, Len(t) - n)

\* the tokens that are a dot followed by text
IsExtensionToken(tok) == tok \in {".png", ".gz", ".tar", ".jpg", ".bmp"}

\* Path.suffix: the last dot-segment of the name, empty when there is none
PathSuffix(name) ==
    IF Len(name) > 1 /\ IsExtensionToken(name[Len(name)])
    THEN <<name[Len(name)]>> ELSE <<>>

\* FileValidator.get_file_format: the longest registered format the name
\* ends with, else the plain suffix
GetFileFormat(name) ==
    IF PathSuffix(name) = <<>> THEN <<>>
    ELSE LET hits == { e \in KnownExtensions : IsSuffix(e, name) }
         IN IF hits # {}
            THEN CHOOSE e \in hits : \A o \in hits : Len(o) <= Len(e)
            ELSE PathSuffix(name)

\* FileValidator.get_base_name_and_extension
GetBaseNameAndExtension(name) ==
    LET ext == GetFileFormat(name)
    IN IF ext # <<>> /\ IsSuffix(ext, name)
       THEN [base |-> DropLast(name, Len(ext)), ext |-> ext]
       ELSE [base |-> DropLast(name, Len(PathSuffix(name))), ext |-> PathSuffix(name)]

\* the text f" ({counter})"
CounterText(counter) == " (" \o ToString(counter) \o ")"

\* f"{base_name} ({counter}){extension}"
NumberedName(base, counter, ext) == base \o <<CounterText(counter)>> \o ext

Path(dir, name) == [dir |-> dir, name |-> name]

\* faulty variant: the counter starts at 0, so the first candidate is "base (0).ext"
RECURSIVE UniqueLoopFromZero(_, _, _, _)
UniqueLoopFromZero(exists, target, parts, counter) ==
    IF target \notin exists THEN target
    ELSE UniqueLoopFromZero(exists,
                    Path(target.dir, NumberedName(parts.base, counter - 1, parts.ext)),
                    parts, counter + 1)

\* the while loop of FileManager.ensure_unique_filename
RECURSIVE UniqueLoop(_, _, _, _)
UniqueLoop(exists, target, parts, counter) ==
    IF target \notin exists THEN target
    ELSE UniqueLoop(exists,
                    Path(target.dir, NumberedName(parts.base, counter, parts.ext)),
                    parts, counter + 1)

\* faulty variant: the computed target path is kept although it exists
EnsureUniqueFilenameSkipped(exists, target) == target

\* FileManager.ensure_unique_filename
EnsureUniqueFilename(exists, target) ==
    IF target \notin exists THEN target
    ELSE UniqueLoop(exists, target, GetBaseNameAndExtension(target.name), 1)

(***************************************************************************)
(* The files of a run.  File i of a batch is valid_files[i]; files 0 and 1 *)
(* share their base name (a.jpg, a.bmp).  The target format is PNG.        *)
(***************************************************************************)
BaseOf(i) == IF i \div 2 = 0 THEN "a" ELSE IF i \div 2 = 1 THEN "b" ELSE "c"
ExtOf(i) == IF i % 2 = 0 THEN ".jpg" ELSE ".bmp"
SourceName(i) == <<BaseOf(i), ExtOf(i)>>
SourcePath(i) == Path("src", SourceName(i))
TargetExtension == <<".png">>

\* FileManager.get_target_file
GetTargetFile(i, output_dir) ==
    LET parts == GetBaseNameAndExtension(SourceName(i))
    IN Path(IF output_dir # "none" THEN output_dir ELSE "src",
            parts.base \o TargetExtension)

(***************************************************************************)
(* Format configuration (FormatConfiguration): the format groups, and the  *)
(* settings that the available target formats are computed from.           *)
(***************************************************************************)
\* most special rules of the settings
MaxRules == 1
\* most entries of the settings' format_aliases table
MaxAliases == 2

\* the format tags of the model, as the groups hold them (uppercase)
Tags == {"JPEG", "JPG", "PNG", "DMG"}

\* the source_format arguments: a tag, or a tag in lower case
SourceArguments == Tags \cup {"jpg"}

\* str.upper
Upper(t) == IF t = "jpg" THEN "JPG" ELSE t

\* _initialize_format_groups, restricted to Tags; internal_conversions is
\* the default of the FormatGroup dataclass, no group overrides it
FormatGroups ==
    [IMAGE |-> [formats |-> {"JPEG", "JPG", "PNG"}, internal_conversions |-> TRUE],
     ARCHIVE |-> [formats |-> {"DMG"}, internal_conversions |-> TRUE]]

\* get_format_group: the group of _format_to_group, "none" for None
GetFormatGroup(file_format) ==
    IF \E g \in DOMAIN FormatGroups : Upper(file_format) \in FormatGroups[g].formats
    THEN CHOOSE g \in DOMAIN FormatGroups : Upper(file_format) \in FormatGroups[g].formats
    ELSE "none"

\* a special rule of the settings: from, to (as .upper() gives them) and
\* whether it has a command
SpecialRules == [from : Tags, to : Tags, command : BOOLEAN]

\* the formats that the settings may restrict as output
RestrictedCandidates == {"JPEG", "DMG"}

\* the pairs that the settings' conversion_exclusions may hold
ExclusionCandidates == { [from |-> "PNG", to |-> "JPG"], [from |-> "JPEG", to |-> "DMG"] }

\* format_aliases with at most MaxAliases entries; a tag without an entry
\* maps to itself, as dict.get(format_upper, format_upper) resolves it
AliasTables ==
    { a \in [Tags -> Tags] : Cardinality({ t \in Tags : a[t] # t }) <= MaxAliases }

\* the sets of at most n special rules
RECURSIVE RuleSets(_)
RuleSets(n) ==
    IF n = 0 THEN {{}}
    ELSE LET smaller == RuleSets(n - 1)
         IN smaller \cup { R \cup {rule} : R \in smaller, rule \in SpecialRules }

\* the merged settings that load_settings may return
SettingsChoices ==
    [special_rules : RuleSets(MaxRules),
     output_restricted_formats : SUBSET RestrictedCandidates,
     conversion_exclusions : SUBSET ExclusionCandidates,
     format_aliases : AliasTables,
     use_canonical_formats : BOOLEAN]

\* get_canonical_format
GetCanonicalFormat(settings, format_name) == settings.format_aliases[Upper(format_name)]

\* normalize_format_set
NormalizeFormatSet(settings, formats) ==
    { GetCanonicalFormat(settings, fmt) : fmt \in formats }

\* _setup_special_rules: the rules with from, to and command
ConversionRules(settings) == { rule \in settings.special_rules : rule.command }

\* get_available_formats: the members of the sorted tuple it returns
GetAvailableFormats(settings, source_format) ==
    LET source == Upper(source_format)
        source_group_name == GetFormatGroup(source)
        internal ==
            IF source_group_name # "none"
               /\ FormatGroups[source_group_name].internal_conversions
            THEN FormatGroups[source_group_name].formats \ {source}
            ELSE {}
        with_rules ==
            internal \cup { rule.to : rule \in { q \in ConversionRules(settings) :
                                                   q.from = source } }
        user_allowed_targets ==
            { rule.to : rule \in { q \in settings.special_rules : q.from = source } }
        formats_to_exclude == settings.output_restricted_formats \ user_allowed_targets
        unrestricted == with_rules \ formats_to_exclude
        excluded ==
            { e.to : e \in { x \in settings.conversion_exclusions :
                               x.from = source /\ x.to \notin user_allowed_targets } }
        available_formats == unrestricted \ excluded
    IN IF ~settings.use_canonical_formats
       THEN available_formats
       ELSE NormalizeFormatSet(settings, available_formats)
              \ {GetCanonicalFormat(settings, source)}

\* the intersection of a non-empty family of sets (set.intersection)
Intersection(family) ==
    { x \in UNION family : \A member \in family : x \in member }

\* FormatValidator._get_cross_format_conversions; source_formats is
\* list(source_formats) of a set, so its members are distinct
GetCrossFormatConversions(settings, source_formats) ==
    IF Cardinality(source_formats) <= 1 THEN {}
    ELSE source_formats
           \cap UNION { GetAvailableFormats(settings, fmt) : fmt \in source_formats }

\* FormatValidator.get_common_formats: the members of the sorted tuple
GetCommonFormats(settings, source_formats) ==
    IF source_formats = {} THEN {}
    ELSE LET all_available_formats ==
                 { GetAvailableFormats(settings, fmt) : fmt \in source_formats }
             common_formats == Intersection(all_available_formats)
         IN IF Cardinality(source_formats) > 1
            THEN common_formats \cup GetCrossFormatConversions(settings, source_formats)
            ELSE common_formats

\* longest special_rules list of the settings in the rule lookups
MaxRuleList == 2

\* the special rules of the settings in the rule lookups
LookupRules == [from : {"JPEG", "JPG"}, to : {"PNG", "DMG"}, command : BOOLEAN]

\* the special_rules lists of at most n rules, in the order of the settings
RECURSIVE RuleLists(_)
RuleLists(n) ==
    IF n = 0 THEN {<<>>}
    ELSE LET shorter == RuleLists(n - 1)
         IN shorter \cup { Append(rules, rule) : rules \in shorter, rule \in LookupRules }

\* None, as get_conversion_rule returns it
NoRule ==
    [from |-> "", to |-> "", converter_type |-> "none", command |-> FALSE,
     rule_index |-> 0]

\* a ConversionRule: its tags, its converter type, whether it has a command
\* template, and the position in the settings of the rule it was made from
ConversionRule(from_format, to_format, converter_type, command, rule_index) ==
    [from |-> from_format, to |-> to_format, converter_type |-> converter_type,
     command |-> command, rule_index |-> rule_index]

\* the first position of a sequence of rules that is in the set positions
\* and holds a rule for the pair; 0 when there is none (next(..., None))
FirstMatch(rules, positions, from_format, to_format) ==
    LET matches == { i \in positions : rules[i].from = from_format
                                         /\ rules[i].to = to_format }
    IN IF matches = {} THEN 0
       ELSE CHOOSE i \in matches : \A j \in matches : i <= j

\* settings_manager.find_special_rule
FindSpecialRule(rules, from_format, to_format) ==
    FirstMatch(rules, DOMAIN rules, Upper(from_format), Upper(to_format))

\* the positions of the rules that _setup_special_rules keeps in
\* _conversion_rules: those with from, to and command
ConversionRulePositions(rules) == { i \in DOMAIN rules : rules[i].command }

\* get_conversion_rule with the canonical branch returning the canonical tags
\* (faulty variant: the rule found for the canonical pair is returned as it
\* is stored)
GetConversionRuleCanonicalTags(settings, rules, from_format, to_format) ==
    LET from == Upper(from_format)
        to == Upper(to_format)
        user_rule == FindSpecialRule(rules, from, to)
        exact_rule == FirstMatch(rules, ConversionRulePositions(rules), from, to)
        canonical_from == GetCanonicalFormat(settings, from)
        canonical_to == GetCanonicalFormat(settings, to)
        canonical_user == FindSpecialRule(rules, canonical_from, canonical_to)
        canonical_rule ==
            FirstMatch(rules, ConversionRulePositions(rules), canonical_from, canonical_to)
    IN IF user_rule # 0
       THEN ConversionRule(from, to, "special", rules[user_rule].command, user_rule)
       ELSE IF exact_rule # 0
       THEN ConversionRule(rules[exact_rule].from, rules[exact_rule].to, "special",
                           rules[exact_rule].command, exact_rule)
       ELSE IF canonical_from # from \/ canonical_to # to
       THEN IF canonical_user # 0
            THEN ConversionRule(canonical_from, canonical_to, "special",
                                rules[canonical_user].command, canonical_user)
            ELSE IF canonical_rule # 0
            THEN ConversionRule(canonical_from, canonical_to, "special",
                                rules[canonical_rule].command, canonical_rule)
            ELSE NoRule
       ELSE NoRule

\* get_conversion_rule
GetConversionRule(settings, rules, from_format, to_format) ==
    LET from == Upper(from_format)
        to == Upper(to_format)
        user_rule == FindSpecialRule(rules, from, to)
        exact_rule == FirstMatch(rules, ConversionRulePositions(rules), from, to)
        canonical_from == GetCanonicalFormat(settings, from)
        canonical_to == GetCanonicalFormat(settings, to)
        canonical_user == FindSpecialRule(rules, canonical_from, canonical_to)
        canonical_rule ==
            FirstMatch(rules, ConversionRulePositions(rules), canonical_from, canonical_to)
    IN IF user_rule # 0
       THEN ConversionRule(from, to, "special", rules[user_rule].command, user_rule)
       ELSE IF exact_rule # 0
       THEN ConversionRule(rules[exact_rule].from, rules[exact_rule].to, "special",
                           rules[exact_rule].command, exact_rule)
       ELSE IF canonical_from # from \/ canonical_to # to
       THEN IF canonical_user # 0
            THEN ConversionRule(from, to, "special",
                                rules[canonical_user].command, canonical_user)
            ELSE IF canonical_rule # 0
            THEN ConversionRule(from, to, "special",
                                rules[canonical_rule].command, canonical_rule)
            ELSE NoRule
       ELSE NoRule

(***************************************************************************)
(* State.                                                                  *)
(***************************************************************************)
VARIABLES
    mode,      \* "batch" (BatchAction.run), "single" (SingleAction.run), "naming",
               \* "construct", "formats", "rules", "template"
    setup,     \* the compiled command plan, the template's temp needs, output_dir
    nfiles,    \* len(valid_files)
    state,     \* BatchConversionState and _cancelling_timeout_counter
    errors,    \* BatchErrorHandler.errors
    fp,        \* BatchFileProcessor.current_future / current_converter
    futures,   \* the futures submitted to the ThreadPoolExecutor, in order
    workers,   \* per pool thread: the future it runs (0: idle)
    convs,     \* the Converter objects constructed, in order
    procs,     \* the subprocesses spawned (Popen), in order
    ctl,       \* the control context: position, dialog response, timeout source,
               \* and whether the timeout fired after the response
    pm,        \* ProgressManager of the single conversion
    fs,        \* the paths that exist
    temps,     \* the TempFileManager resources created, in order
    snap,      \* what was recorded when cancellation was requested, and the
               \* running conversion (with its subprocess) that a
               \* start_conversion last replaced
    nm,        \* naming run: the computed target path, its base name and
               \* extension, and the path the naming returned
    fg,        \* FormatConfiguration: the settings it was built from and the
               \* last get_available_formats call with its returned formats
    tp         \* TemplateProcessor: the command string handed to the parser and
               \* what was compiled from it

vars == <<mode, setup, nfiles, state, errors, fp, futures, workers, convs,
          procs, ctl, pm, fs, temps, snap, nm, fg, tp>>

engineVars == <<mode, setup, nfiles, state, errors, fp, futures, workers,
                convs, ctl, pm, temps, snap>>

StepKinds == {"cmd", "test"}

\* chained plans: 2..MaxSteps steps, the first one a tool invocation
ChainPlans ==
    UNION { { s \in [1..n -> StepKinds] : s[1] = "cmd" } : n \in 2..MaxSteps }

TemplateKinds == {"none", "file", "dir", "both"}

IdleState ==
    [current_index |-> 0, successful_conversions |-> 0, cancelled |-> FALSE,
     cancelling |-> FALSE, running |-> FALSE, counter |-> 0]

IdleCtl ==
    [pc |-> "init", response |-> "none", timeout_active |-> FALSE, late_tick |-> FALSE,
     exception |-> "none", run |-> "none", selection |-> "none",
     output_directory |-> "none", errors_reported |-> FALSE]

IdlePm ==
    [cancelled |-> FALSE, cancelling |-> FALSE, counter |-> 0, thread |-> "none"]

IdleSnap ==
    [taken |-> FALSE, successful |-> 0, nerrors |-> 0, nfutures |-> 0,
     thread_alive |-> FALSE, target_present |-> FALSE,
     superseded |-> 0, superseded_proc |-> 0]

IdleNm ==
    [base |-> <<"a">>, ext |-> TargetExtension,
     target |-> Path("src", <<"a">> \o TargetExtension),
     result |-> Path("", <<>>), done |-> FALSE,
     compiled |-> FALSE, command_output |-> Path("", <<>>), occupied |-> FALSE]

IdleFg ==
    [settings |-> [special_rules |-> {}, output_restricted_formats |-> {},
                   conversion_exclusions |-> {},
                   format_aliases |-> [t \in Tags |-> t],
                   use_canonical_formats |-> TRUE],
     source |-> "", result |-> {}, asked |-> FALSE,
     canonical |-> [asked |-> FALSE, name |-> "", value |-> "", again |-> ""],
     batch |-> [asked |-> FALSE, source_formats |-> {}, result |-> {}],
     rule_list |-> <<>>,
     lookup |-> [asked |-> FALSE, from |-> "", to |-> "", returned |-> NoRule]]

NoMessage == [kind |-> "none", step |-> 0, total |-> 0]

\* CommandExecutionResult not yet produced
NoResult ==
    [done |-> FALSE, success |-> FALSE, cancelled |-> FALSE, message |-> NoMessage,
     command_step |-> 0]

Result(success, cancelled, message, command_step) ==
    [done |-> TRUE, success |-> success, cancelled |-> cancelled,
     message |-> message, command_step |-> command_step]

IdleTp ==
    [command_str |-> <<>>, parsed |-> FALSE, command |-> <<>>,
     is_shell_command |-> FALSE,
     steps |-> <<>>, injected |-> FALSE, validated_steps |-> <<>>]

(***************************************************************************)
(* Converter construction: target naming and template compilation.         *)
(***************************************************************************)
\* The resolved commands of a plan.  A command string is the sequence of
\* its blank-separated words.
\* the argv of step k of a chain: the injected existence check, or a tool
StepCommand(k) ==
    IF setup.steps[k] = "test" THEN <<"test", "-f", "tmp">>
    ELSE <<"tool" \o ToString(k), "in", "out">>

\* the one command of a plan without "&&": an argv, or a shell string
PlainCommand == <<"tool1", "in", "out">>
ShellString == <<"tool1", "in", ">", "out">>

\* " && ".join of the first k steps (_execute_shell_chained_commands, and
\* the command string of a failed tool validation)
RECURSIVE JoinSteps(_)
JoinSteps(k) ==
    IF k = 0 THEN <<>>
    ELSE IF k = 1 THEN StepCommand(1)
    ELSE JoinSteps(k - 1) \o <<"&&">> \o StepCommand(k)

\* TemplateProcessor._parse_command_string: Converter.command is the first
\* step of a chain, [first_tool, command_str] for a shell command, else the
\* argv; it is the empty list when the template did not compile
\* (build_command_from_template returning [], False, [], False, error_msg)
ConverterCommand ==
    IF setup.unresolved THEN <<>>
    ELSE IF setup.steps # <<>> THEN << StepCommand(1) >>
    ELSE IF setup.shell THEN << <<"tool1">>, ShellString >>
    ELSE << PlainCommand >>

\* " ".join(str(arg) for arg in self.command)
RECURSIVE JoinWords(_)
JoinWords(parts) ==
    IF parts = <<>> THEN <<>> ELSE Head(parts) \o JoinWords(Tail(parts))

\* TemplateProcessor._process_template: the temp resources the template
\* makes it create, in the order it creates them
TemplateTemps(kind, owner) ==
    CASE kind = "none" -> <<>>
      [] kind = "dir"  -> << [kind |-> "dir", live |-> TRUE, owner |-> owner] >>
      [] kind = "file" -> << [kind |-> "file", live |-> TRUE, owner |-> owner] >>
      [] kind = "both" -> << [kind |-> "dir", live |-> TRUE, owner |-> owner],
                             [kind |-> "file", live |-> TRUE, owner |-> owner] >>

\* how ConverterFactory.create_converter ends: with a Converter, with None
\* (no conversion between the two formats), or with the exception of a temp
\* resource that could not be created (the first one, or the temp file
\* after the temp directory), which build_command_from_template lets through
CreateOutcomes ==
    {"converter", "none"}
      \cup (IF setup.tmpl # "none" THEN {"raises_first"} ELSE {})
      \cup (IF setup.tmpl = "both" THEN {"raises_second"} ELSE {})

\* TemplateProcessor._process_template ending with that exception: the temp
\* directory created before the temp file failed stays
TempsBeforeRaise(created, owner) ==
    IF created = "raises_second"
    THEN << [kind |-> "dir", live |-> TRUE, owner |-> owner] >>
    ELSE <<>>

\* Converter.__init__: the new Converter for file i, given the paths that
\* exist and the temp resources created so far.  With a placeholder that
\* format_template cannot resolve (KeyError), _process_template releases the
\* temp resource its variable temp_manager holds, the last one created, and
\* the Converter is left with no command and no temp resource (its
\* FileManager is handed the error string)
NewConverter(i, exists, tempsNow, id) ==
    LET acquired == TemplateTemps(setup.tmpl, id)
        made == IF setup.unresolved /\ acquired # <<>>
                THEN [acquired EXCEPT ![Len(acquired)].live = FALSE]
                ELSE acquired
    IN [conv |->
          [file |-> i,
           target |-> EnsureUniqueFilename(exists, GetTargetFile(i, setup.output_dir)),
           temp_manager |-> IF made = <<>> \/ setup.unresolved THEN 0
                            ELSE Len(tempsNow) + Len(made),
           pc |-> "new", ret |-> "none", outcome |-> "none",
           error_set |-> FALSE, error_message |-> NoMessage,
           pt_cancelled |-> FALSE, cs_cancelled |-> FALSE,
           ex_pc |-> "idle", ex_step |-> 0, ex_cancelled |-> FALSE,
           ex_prev |-> FALSE, ex_proc |-> 0, res |-> NoResult,
           target_at_return |-> FALSE, last_command |-> <<>>],
        temps |-> tempsNow \o made]

(***************************************************************************)
(* CommandExecutor.                                                        *)
(***************************************************************************)
\* ConversionManager.execute_conversion.cancel_check; the external check of
\* a batch is BatchStateManager.is_cancelled, a single conversion has none
CancelCheck(cv) == cv.cs_cancelled \/ (mode = "batch" /\ state.cancelled)

\* CommandExecutor._is_cancelled (it also latches _cancelled)
IsCancelled(cv) == cv.ex_cancelled \/ CancelCheck(cv)

Latch(cv) == [cv EXCEPT !.ex_cancelled = IsCancelled(cv)]

CancelledResult == Result(FALSE, TRUE, [kind |-> "cancelled", step |-> 0, total |-> 0], 0)

\* execute_single_command / _execute_shell_chained_commands: the result
\* built from the SubprocessResult of the one command
SingleCommandResult(cv, ok) ==
    [cv EXCEPT !.ex_pc = "done",
               !.res = Result(ok, cv.ex_cancelled,
                              IF ok THEN NoMessage
                              ELSE [kind |-> "output", step |-> 0, total |-> 0], 1)]

\* faulty variant: a failing step does not end the loop
ChainStepResultContinue(cv, ok) ==
    IF cv.ex_step + 1 = Len(setup.steps)
    THEN [cv EXCEPT !.ex_pc = "done", !.res = Result(TRUE, FALSE, NoMessage, 0)]
    ELSE [cv EXCEPT !.ex_prev = TRUE, !.ex_step = cv.ex_step + 1, !.ex_pc = "loop"]

\* faulty variant: the failing step is reported by its 0-based index
ChainStepResultZeroBased(cv, ok) ==
    IF ~ok
    THEN [cv EXCEPT !.ex_pc = "done",
                    !.res = Result(FALSE, FALSE,
                              [kind |-> "step_failed", step |-> cv.ex_step,
                               total |-> Len(setup.steps)], cv.ex_step + 1)]
    ELSE IF cv.ex_step + 1 = Len(setup.steps)
         THEN [cv EXCEPT !.ex_pc = "done", !.res = Result(TRUE, FALSE, NoMessage, 0)]
         ELSE [cv EXCEPT !.ex_prev = TRUE, !.ex_step = cv.ex_step + 1, !.ex_pc = "loop"]

\* faulty variant: a failed step is run again
ChainStepResultRetry(cv, ok) ==
    IF ~ok
    THEN [cv EXCEPT !.ex_pc = "loop"]
    ELSE IF cv.ex_step + 1 = Len(setup.steps)
         THEN [cv EXCEPT !.ex_pc = "done", !.res = Result(TRUE, FALSE, NoMessage, 0)]
         ELSE [cv EXCEPT !.ex_prev = TRUE, !.ex_step = cv.ex_step + 1, !.ex_pc = "loop"]

\* faulty variant: a failing existence check is reported like any other step,
\* with its own error output
ChainStepResultOwnError(cv, ok) ==
    IF ~ok
    THEN [cv EXCEPT !.ex_pc = "done",
                    !.res = Result(FALSE, FALSE,
                              [kind |-> "step_failed", step |-> cv.ex_step + 1,
                               total |-> Len(setup.steps)], cv.ex_step + 1)]
    ELSE IF cv.ex_step + 1 = Len(setup.steps)
         THEN [cv EXCEPT !.ex_pc = "done", !.res = Result(TRUE, FALSE, NoMessage, 0)]
         ELSE [cv EXCEPT !.ex_prev = TRUE, !.ex_step = cv.ex_step + 1, !.ex_pc = "loop"]

\* _execute_regular_chained_commands, after run_cancellable_command returned
\* for step ex_step (0-based): the failure result, or on to the next step.
\* A "validation_failed" message quotes previous_result.error_output: its
\* step field is the 1-based index of that previous step
ChainStepResult(cv, ok) ==
    IF ~ok
    THEN LET is_validation_step == setup.steps[cv.ex_step + 1] = "test"
             message ==
                 IF is_validation_step /\ cv.ex_prev
                 THEN [kind |-> "validation_failed", step |-> cv.ex_step,
                       total |-> 0]
                 ELSE [kind |-> "step_failed", step |-> cv.ex_step + 1,
                       total |-> Len(setup.steps)]
         IN [cv EXCEPT !.ex_pc = "done",
                       !.res = Result(FALSE, FALSE, message, cv.ex_step + 1)]
    ELSE IF cv.ex_step + 1 = Len(setup.steps)
         THEN [cv EXCEPT !.ex_pc = "done", !.res = Result(TRUE, FALSE, NoMessage, 0)]
         ELSE [cv EXCEPT !.ex_prev = TRUE, !.ex_step = cv.ex_step + 1, !.ex_pc = "loop"]

\* the plan runs step by step (no step needs the shell)
IsRegularChain == setup.steps # <<>> /\ ~setup.shell

\* the command handed to run_cancellable_command: the step of a chain run
\* step by step, the "&&"-joined chain run by the shell, command[1] of a
\* shell command, or the argv (execution_func)
SpawnCommand(cv) ==
    IF IsRegularChain THEN StepCommand(cv.ex_step + 1)
    ELSE IF setup.steps # <<>> THEN JoinSteps(Len(setup.steps))
    ELSE IF setup.shell THEN ShellString
    ELSE PlainCommand

\* what the executor does with the SubprocessResult of the command it ran
AfterCommand(cv, ok) ==
    IF IsRegularChain THEN ChainStepResult(cv, ok) ELSE SingleCommandResult(cv, ok)

\* the thread that runs the executor of converter c is running: a pool
\* thread inside convert() (batch), the execution thread (single)
ExecRunning(c) ==
    IF mode = "batch"
    THEN /\ convs[c].pc = "exec"
         /\ \E w \in DOMAIN workers :
               workers[w] # 0 /\ futures[workers[w]].conv = c
    ELSE mode = "single" /\ pm.thread = "alive"

\* the executor's step leaves converter c as cv; the execution thread of a
\* single conversion ends with the result (run_execution)
CommitExec(c, cv) ==
    /\ convs' = [convs EXCEPT ![c] = cv]
    /\ pm' = IF mode = "single" /\ cv.ex_pc = "done"
             THEN [pm EXCEPT !.thread = "dead"] ELSE pm

\* execution_func, execute_single_command and execute_chained_commands up to
\* the first command: the cancellation check before anything is run
ExecEntry(c) ==
    /\ c \in DOMAIN convs /\ ExecRunning(c) /\ convs[c].ex_pc = "entry"
    /\ LET cv == Latch(convs[c])
       IN IF IsCancelled(convs[c])
          THEN CommitExec(c, [cv EXCEPT !.ex_pc = "done", !.res = CancelledResult])
          ELSE CommitExec(c, [cv EXCEPT !.ex_pc =
                                  IF IsRegularChain THEN "loop" ELSE "prespawn"])
    /\ UNCHANGED <<mode, setup, nfiles, state, errors, fp, futures, workers,
                   procs, ctl, fs, temps, snap, nm, fg, tp>>

\* _execute_regular_chained_commands: the top of the loop for step ex_step
ExecLoopTop(c) ==
    /\ c \in DOMAIN convs /\ ExecRunning(c) /\ convs[c].ex_pc = "loop"
    /\ LET cv == Latch(convs[c])
       IN IF IsCancelled(convs[c])
          THEN CommitExec(c, [cv EXCEPT !.ex_pc = "done", !.res = CancelledResult])
          ELSE CommitExec(c, [cv EXCEPT !.ex_pc = "prespawn"])
    /\ UNCHANGED <<mode, setup, nfiles, state, errors, fp, futures, workers,
                   procs, ctl, fs, temps, snap, nm, fg, tp>>

\* run_cancellable_command up to Popen: cancelled before execution, Popen
\* raising (as it does for the empty command), or the subprocess started
ExecSpawn(c) ==
    /\ c \in DOMAIN convs /\ ExecRunning(c) /\ convs[c].ex_pc = "prespawn"
    /\ LET cv == Latch(convs[c])
       IN IF IsCancelled(convs[c])
          THEN /\ CommitExec(c, AfterCommand(cv, FALSE))
               /\ procs' = procs
          ELSE \/ /\ CommitExec(c, AfterCommand(cv, FALSE))
                  /\ procs' = procs
               \/ /\ ~setup.unresolved
                  /\ procs' = Append(procs, [conv |-> c, step |-> cv.ex_step,
                                              st |-> "alive", wrote |-> FALSE,
                                              command |-> SpawnCommand(cv)])
                  /\ CommitExec(c, [cv EXCEPT !.ex_pc = "poll",
                                              !.ex_proc = Len(procs) + 1])
    /\ UNCHANGED <<mode, setup, nfiles, state, errors, fp, futures, workers,
                   ctl, fs, temps, snap, nm, fg, tp>>

\* faulty variant: the poll loop is left although the subprocess still runs
ProcessEndedNoWait(p) == TRUE

\* process.poll() is not None
ProcessEnded(p) == procs[p].st # "alive"

\* run_cancellable_command's poll loop: kill on cancellation, else wait for
\* the exit and collect the result
ExecPoll(c) ==
    /\ c \in DOMAIN convs /\ ExecRunning(c) /\ convs[c].ex_pc = "poll"
    /\ LET p == convs[c].ex_proc
           cv == Latch(convs[c])
       IN IF ~ProcessEnded(p) /\ IsCancelled(convs[c])
          THEN /\ procs' = [procs EXCEPT ![p].st = "killed"]
               /\ CommitExec(c, AfterCommand(cv, FALSE))
          ELSE /\ ProcessEnded(p)
               /\ procs' = procs
               /\ CommitExec(c, AfterCommand(convs[c], procs[p].st = "ok"))
    /\ UNCHANGED <<mode, setup, nfiles, state, errors, fp, futures, workers,
                   ctl, fs, temps, snap, nm, fg, tp>>

(***************************************************************************)
(* The subprocesses (the external tools).                                  *)
(***************************************************************************)
\* a running tool creates the target file
ProcWrite(p) ==
    /\ p \in DOMAIN procs /\ procs[p].st = "alive"
    /\ convs[procs[p].conv].target \notin fs
    /\ fs' = fs \cup {convs[procs[p].conv].target}
    /\ procs' = [procs EXCEPT ![p].wrote = TRUE]
    /\ UNCHANGED <<engineVars, nm, fg, tp>>

\* a running tool exits, with status 0 or not
ProcExit(p) ==
    /\ p \in DOMAIN procs /\ procs[p].st = "alive"
    /\ \E st \in {"ok", "fail"} : procs' = [procs EXCEPT ![p].st = st]
    /\ UNCHANGED <<mode, setup, nfiles, state, errors, fp, futures, workers,
                   convs, ctl, pm, fs, temps, snap, nm, fg, tp>>

(***************************************************************************)
(* Converter.convert: what follows the execution.                          *)
(***************************************************************************)
\* FileManager.delete_target_file (unlink succeeding): the target, else
\* (with an output directory) the same name next to the source file
DeleteTargetFile(exists, cv) ==
    IF cv.target \in exists THEN exists \ {cv.target}
    ELSE IF setup.output_dir # "none"
         THEN exists \ {Path("src", cv.target.name)}
         ELSE exists

\* FileManager.cleanup_temp_files -> TempFileManager.__exit__
CleanupTempFiles(tempsNow, cv) ==
    IF cv.temp_manager # 0
    THEN [tempsNow EXCEPT ![cv.temp_manager].live = FALSE]
    ELSE tempsNow

\* faulty variant: the cancelled branch returns without deleting the target file
ConvertTailKeepTarget(cv, how, res, exists, tempsNow) ==
    LET failed == how = "result" /\ ~res.success /\ ~res.cancelled
        after == IF failed THEN DeleteTargetFile(exists, cv) ELSE exists
    IN [conv |-> [cv EXCEPT !.pc = "returned",
                     !.ret = IF how = "result" /\ res.success THEN "true" ELSE "false",
                     !.outcome = IF how # "result" THEN how
                                 ELSE IF res.success THEN "success"
                                 ELSE IF res.cancelled THEN "cancelled" ELSE "failed",
                     !.error_set = failed,
                     !.error_message = IF failed THEN res.message ELSE NoMessage,
                     !.target_at_return = cv.target \in after,
                     !.last_command =
                         IF failed THEN JoinWords(ConverterCommand)
                         ELSE IF how = "missing_tool" /\ mode = "batch"
                         THEN (IF setup.steps # <<>> THEN JoinSteps(Len(setup.steps))
                               ELSE JoinWords(ConverterCommand))
                         ELSE <<>>],
        fs |-> after,
        temps |-> CleanupTempFiles(tempsNow, cv)]

\* faulty variant: the failure branch returns without deleting the target file
ConvertTailKeepFailedTarget(cv, how, res, exists, tempsNow) ==
    LET failed == how = "result" /\ ~res.success /\ ~res.cancelled
        deletes == how = "result" /\ res.cancelled
        records == failed \/ (how = "missing_tool" /\ mode = "batch")
        after == IF deletes THEN DeleteTargetFile(exists, cv) ELSE exists
    IN [conv |-> [cv EXCEPT !.pc = "returned",
                     !.ret = IF how = "result" /\ res.success THEN "true" ELSE "false",
                     !.outcome = IF how # "result" THEN how
                                 ELSE IF res.success THEN "success"
                                 ELSE IF res.cancelled THEN "cancelled" ELSE "failed",
                     !.error_set = records,
                     !.error_message =
                         IF failed THEN res.message
                         ELSE IF records THEN [kind |-> "missing_tool", step |-> 0, total |-> 0]
                         ELSE NoMessage,
                     !.target_at_return = cv.target \in after,
                     !.last_command =
                         IF failed THEN JoinWords(ConverterCommand)
                         ELSE IF how = "missing_tool" /\ mode = "batch"
                         THEN (IF setup.steps # <<>> THEN JoinSteps(Len(setup.steps))
                               ELSE JoinWords(ConverterCommand))
                         ELSE <<>>],
        fs |-> after,
        temps |-> CleanupTempFiles(tempsNow, cv)]

\* Converter.convert from the result of the execution (how = "result"), or
\* from a failed tool validation (how = "missing_tool"), to its return: the error
\* is recorded, the target file deleted, the temp files cleaned up (finally)
ConvertTail(cv, how, res, exists, tempsNow) ==
    LET failed == how = "result" /\ ~res.success /\ ~res.cancelled
        deletes == how = "result" /\ ~res.success
        records == failed \/ (how = "missing_tool" /\ mode = "batch")
        after == IF deletes THEN DeleteTargetFile(exists, cv) ELSE exists
    IN [conv |-> [cv EXCEPT !.pc = "returned",
                     !.ret = IF how = "result" /\ res.success THEN "true" ELSE "false",
                     !.outcome = IF how # "result" THEN how
                                 ELSE IF res.success THEN "success"
                                 ELSE IF res.cancelled THEN "cancelled" ELSE "failed",
                     !.error_set = records,
                     !.error_message =
                         IF failed THEN res.message
                         ELSE IF records THEN [kind |-> "missing_tool", step |-> 0, total |-> 0]
                         ELSE NoMessage,
                     !.target_at_return = cv.target \in after,
                     !.last_command =
                         IF failed THEN JoinWords(ConverterCommand)
                         ELSE IF how = "missing_tool" /\ mode = "batch"
                         THEN (IF setup.steps # <<>> THEN JoinSteps(Len(setup.steps))
                               ELSE JoinWords(ConverterCommand))
                         ELSE <<>>],
        fs |-> after,
        temps |-> CleanupTempFiles(tempsNow, cv)]

(***************************************************************************)
(* BatchFileProcessor.                                                     *)
(***************************************************************************)
Bundle ==
    [fp |-> fp, futures |-> futures, convs |-> convs, temps |-> temps, raised |-> FALSE]

FutureDone(f) == f.st \in {"cancelled", "finished"}

\* faulty variant: the queued future is not cancelled
CancelCurrentConversionKeepFuture(b) ==
    LET cc == b.fp.current_converter
    IN [b EXCEPT
          !.convs = IF cc # 0 THEN [b.convs EXCEPT ![cc].pt_cancelled = TRUE]
                    ELSE b.convs,
          !.fp = [current_future |-> 0, current_converter |-> 0]]

\* BatchFileProcessor.cancel_current_conversion
CancelCurrentConversion(b) ==
    LET cc == b.fp.current_converter
        cf == b.fp.current_future
    IN [b EXCEPT
          !.convs = IF cc # 0 THEN [b.convs EXCEPT ![cc].pt_cancelled = TRUE]
                    ELSE b.convs,
          !.futures = IF cf # 0 /\ b.futures[cf].st = "pending"
                      THEN [b.futures EXCEPT ![cf].st = "cancelled"]
                      ELSE b.futures,
          !.fp = [current_future |-> 0, current_converter |-> 0]]

\* BatchFileProcessor.start_conversion for file i; created: how
\* ConverterFactory.create_converter ends.  Its exception leaves
\* start_conversion after cancel_current_conversion (raised)
StartConversion(b0, i, created, exists) ==
    LET b == CancelCurrentConversion(b0)
        id == Len(b.convs) + 1
        nc == NewConverter(i, exists, b.temps, id)
    IN CASE created = "converter" ->
              [fp |-> [current_future |-> Len(b.futures) + 1, current_converter |-> id],
               futures |-> Append(b.futures,
                                  [conv |-> id, file |-> i, st |-> "pending",
                                   success |-> FALSE, recorded |-> FALSE]),
               convs |-> Append(b.convs, nc.conv),
               temps |-> nc.temps,
               raised |-> FALSE]
         [] created = "none" ->
              [b EXCEPT
                 !.fp = [current_future |-> Len(b.futures) + 1, current_converter |-> 0],
                 !.futures = Append(b.futures,
                                    [conv |-> 0, file |-> i, st |-> "pending",
                                     success |-> FALSE, recorded |-> FALSE])]
         [] OTHER ->
              [b EXCEPT !.temps = b.temps \o TempsBeforeRaise(created, id),
                        !.raised = TRUE]

SetBundle(b) ==
    /\ fp' = b.fp
    /\ futures' = b.futures
    /\ convs' = b.convs
    /\ temps' = b.temps

\* the futures a pool thread may take next: the oldest pending one
NextPending ==
    { f \in DOMAIN futures :
        /\ futures[f].st = "pending"
        /\ \A g \in 1..(f - 1) : futures[g].st # "pending" }

\* a pool thread takes the next work item; the item of a file without
\* converter is the lambda returning (False, None)
WorkerPick(w) ==
    /\ mode = "batch" /\ w \in DOMAIN workers /\ workers[w] = 0
    /\ \E f \in NextPending :
         IF futures[f].conv = 0
         THEN /\ futures' = [futures EXCEPT ![f].st = "finished"]
              /\ UNCHANGED <<workers, convs>>
         ELSE /\ futures' = [futures EXCEPT ![f].st = "running"]
              /\ workers' = [workers EXCEPT ![w] = f]
              /\ convs' = [convs EXCEPT ![futures[f].conv].pc = "validate"]
    /\ UNCHANGED <<mode, setup, nfiles, state, errors, fp, procs, ctl, pm, fs,
                   temps, snap, nm, fg, tp>>

\* the worker's future ends with (success, converter)
FinishFuture(w, tail) ==
    /\ futures' = [futures EXCEPT ![workers[w]].st = "finished",
                                  ![workers[w]].success = (tail.conv.ret = "true")]
    /\ workers' = [workers EXCEPT ![w] = 0]
    /\ convs' = [convs EXCEPT ![futures[workers[w]].conv] = tail.conv]
    /\ fs' = tail.fs
    /\ temps' = tail.temps

\* _convert_file -> Converter.convert up to the execution: reset of the
\* progress tracker and validate_tools
WorkerValidate(w) ==
    /\ mode = "batch" /\ w \in DOMAIN workers /\ workers[w] # 0
    /\ LET c == futures[workers[w]].conv
           cv == [convs[c] EXCEPT !.pt_cancelled = FALSE]
       IN /\ convs[c].pc = "validate"
          /\ \/ /\ convs' = [convs EXCEPT ![c] = [cv EXCEPT !.pc = "exec", !.ex_pc = "entry"]]
                /\ UNCHANGED <<futures, workers, fs, temps>>
             \/ /\ ~setup.unresolved
                /\ FinishFuture(w, ConvertTail(cv, "missing_tool", NoResult, fs, temps))
    /\ UNCHANGED <<mode, setup, nfiles, state, errors, fp, procs, ctl, pm, snap, nm, fg, tp>>

\* Converter.convert from the execution result to its return, and the end
\* of _convert_file
WorkerFinish(w) ==
    /\ mode = "batch" /\ w \in DOMAIN workers /\ workers[w] # 0
    /\ LET c == futures[workers[w]].conv
       IN /\ convs[c].pc = "exec" /\ convs[c].ex_pc = "done"
          /\ FinishFuture(w, ConvertTail(convs[c], "result", convs[c].res, fs, temps))
    /\ UNCHANGED <<mode, setup, nfiles, state, errors, fp, procs, ctl, pm, snap, nm, fg, tp>>

(***************************************************************************)
(* BatchAction and BatchStateManager: the control context of a batch.      *)
(***************************************************************************)
\* BatchStateManager.get_current_file (-1: None)
GetCurrentFile(st) == IF st.current_index < nfiles THEN st.current_index ELSE -1

\* BatchStateManager.is_complete
IsComplete(st) == st.current_index >= nfiles

\* BatchFileProcessor.is_conversion_complete
IsConversionComplete(b) ==
    b.fp.current_future # 0 /\ FutureDone(b.futures[b.fp.current_future])

\* BatchAction._start_next_conversion
StartNextConversion(b, st, created, exists) ==
    IF GetCurrentFile(st) = -1 THEN b
    ELSE StartConversion(b, GetCurrentFile(st), created, exists)

\* faulty variant: a failed file is skipped without an error entry
ProcessConversionResultNoEntry(r, success, converter, cf, created, exists) ==
    IF GetCurrentFile(r.st) = -1 THEN r
    ELSE LET st1 == IF success
                    THEN [r.st EXCEPT !.successful_conversions = @ + 1]
                    ELSE r.st
             st2 == [st1 EXCEPT !.current_index = @ + 1]
             b1 == [r.b EXCEPT !.futures[cf].recorded = TRUE]
         IN [b |-> IF IsComplete(st2) THEN b1
                   ELSE StartNextConversion(b1, st2, created, exists),
             st |-> st2, errs |-> r.errs]

\* faulty variant: the first failure ends the batch, its error is not recorded
ProcessConversionResultAbort(r, success, converter, cf, created, exists) ==
    IF GetCurrentFile(r.st) = -1 THEN r
    ELSE LET st1 == IF success
                    THEN [r.st EXCEPT !.successful_conversions = @ + 1,
                                      !.current_index = @ + 1]
                    ELSE [r.st EXCEPT !.current_index = nfiles]
             b1 == [r.b EXCEPT !.futures[cf].recorded = TRUE]
         IN [b |-> IF IsComplete(st1) THEN b1
                   ELSE StartNextConversion(b1, st1, created, exists),
             st |-> st1, errs |-> r.errs]

\* BatchAction._process_conversion_result with _record_conversion_error:
\* the result of the current file is recorded, the index advanced, the next
\* file started
ProcessConversionResult(r, success, converter, cf, created, exists) ==
    IF GetCurrentFile(r.st) = -1 THEN r
    ELSE LET st1 == IF success
                    THEN [r.st EXCEPT !.successful_conversions = @ + 1]
                    ELSE r.st
             errs1 == IF success THEN r.errs
                      ELSE Append(r.errs,
                                  [file |-> GetCurrentFile(r.st),
                                   converter |-> converter,
                                   command |-> IF converter # 0
                                               THEN r.b.convs[converter].last_command
                                               ELSE <<>>,
                                   message |-> IF converter # 0 /\ r.b.convs[converter].error_set
                                               THEN r.b.convs[converter].error_message
                                               ELSE NoMessage])
             st2 == [st1 EXCEPT !.current_index = @ + 1]
             b1 == [r.b EXCEPT !.futures[cf].recorded = TRUE]
         IN [b |-> IF IsComplete(st2) THEN b1
                   ELSE StartNextConversion(b1, st2, created, exists),
             st |-> st2, errs |-> errs1]

\* faulty variant: the next conversion is started although the current one has not
\* ended
HandleProgressUpdateEager(r, created, exists) ==
    IF IsConversionComplete(r.b)
    THEN LET cf == r.b.fp.current_future
             got == [r EXCEPT !.b.fp = [current_future |-> 0, current_converter |-> 0]]
         IN ProcessConversionResult(got, r.b.futures[cf].st = "finished" /\ r.b.futures[cf].success,
                                    r.b.futures[cf].conv, cf, created, exists)
    ELSE IF ~IsComplete(r.st)
         THEN [r EXCEPT !.b = StartNextConversion(r.b, r.st, created, exists)]
         ELSE r

\* BatchAction._handle_progress_update with get_conversion_result
HandleProgressUpdate(r, created, exists) ==
    IF IsConversionComplete(r.b)
    THEN LET cf == r.b.fp.current_future
             got == [r EXCEPT !.b.fp = [current_future |-> 0, current_converter |-> 0]]
         IN ProcessConversionResult(got, r.b.futures[cf].st = "finished" /\ r.b.futures[cf].success,
                                    r.b.futures[cf].conv, cf, created, exists)
    ELSE IF r.b.fp.current_future = 0 /\ ~IsComplete(r.st)
         THEN [r EXCEPT !.b = StartNextConversion(r.b, r.st, created, exists)]
         ELSE r

\* on_response / on_delete_event of the batch dialog
OnCancelResponse(st) == [st EXCEPT !.cancelled = TRUE, !.cancelling = TRUE, !.running = FALSE]

\* BatchAction._perform_batch_conversion up to the dialog's main loop; an
\* exception of the first start_conversion is caught by BatchAction.run,
\* which reports it and goes on to its finally
BatchStart ==
    /\ mode = "batch" /\ ctl.pc = "init"
    /\ \E created \in CreateOutcomes :
         LET b == StartNextConversion(Bundle, state, created, fs)
         IN /\ SetBundle(b)
            /\ IF b.raised
               THEN /\ state' = state
                    /\ ctl' = [ctl EXCEPT !.pc = "joining", !.exception = "caught"]
               ELSE /\ state' = [state EXCEPT !.running = TRUE]
                    /\ ctl' = [ctl EXCEPT !.pc = "dialog", !.timeout_active = TRUE]
    /\ UNCHANGED <<mode, setup, nfiles, errors, workers, procs, pm, fs, snap, nm, fg, tp>>

\* the GLib timeout source of the progress dialog may be dispatched: while
\* Gtk.Dialog.run iterates its main loop, and once more in the iteration in
\* which the response ended that loop
TimeoutMayFire ==
    /\ ctl.timeout_active
    /\ ctl.pc = "dialog" \/ (ctl.pc = "closing" /\ ~ctl.late_tick)

\* BatchStateManager._handle_progress_timeout, called by the GLib timeout of
\* the dialog; an exception of start_conversion leaves the callback, which
\* ends the timeout source and leaves the dialog open
BatchTick ==
    /\ mode = "batch" /\ TimeoutMayFire
    /\ IF state.cancelling
       THEN IF state.counter + 1 >= MAX_CANCELLING_TIMEOUTS
            THEN /\ state' = OnCancelResponse([state EXCEPT !.counter = @ + 1])
                 /\ SetBundle(CancelCurrentConversion(Bundle))
                 /\ ctl' = [ctl EXCEPT !.pc = "closing", !.response = "cancel",
                                        !.timeout_active = FALSE,
                                        !.late_tick = (ctl.pc = "closing")]
                 /\ UNCHANGED errors
            ELSE /\ state' = [state EXCEPT !.counter = @ + 1]
                 /\ ctl' = [ctl EXCEPT !.late_tick = (ctl.pc = "closing")]
                 /\ UNCHANGED <<fp, futures, convs, temps, errors>>
       ELSE IF state.cancelled \/ ~state.running
       THEN /\ state' = [state EXCEPT !.running = FALSE]
            /\ ctl' = [ctl EXCEPT !.timeout_active = FALSE,
                                   !.late_tick = (ctl.pc = "closing")]
            /\ UNCHANGED <<fp, futures, convs, temps, errors>>
       ELSE IF state.current_index < nfiles
       THEN \E created \in CreateOutcomes :
               LET r == HandleProgressUpdate([b |-> Bundle, st |-> state, errs |-> errors],
                                             created, fs)
               IN /\ SetBundle(r.b)
                  /\ state' = r.st
                  /\ errors' = r.errs
                  /\ ctl' = IF r.b.raised
                            THEN [ctl EXCEPT !.timeout_active = FALSE,
                                             !.exception = "uncaught"]
                            ELSE ctl
       ELSE /\ state' = [state EXCEPT !.running = FALSE]
            /\ ctl' = [ctl EXCEPT !.pc = "closing", !.response = "ok",
                                   !.timeout_active = FALSE]
            /\ UNCHANGED <<fp, futures, convs, temps, errors>>
    /\ UNCHANGED <<mode, setup, nfiles, workers, procs, pm, fs, snap, nm, fg, tp>>

\* the operator cancels (Cancel button or closing the window): on_response
\* with _handle_cancellation; nested: the event is dispatched by the
\* main_iteration loop of _update_progress_display, which then raises
BatchCancel ==
    /\ mode = "batch" /\ ctl.pc = "dialog"
    /\ state' = OnCancelResponse(state)
    /\ SetBundle(CancelCurrentConversion(Bundle))
    /\ \E nested \in BOOLEAN :
         /\ nested => (ctl.timeout_active /\ state.running /\ state.current_index < nfiles)
         /\ \E active \in (IF nested THEN BOOLEAN ELSE {ctl.timeout_active}) :
              ctl' = [ctl EXCEPT !.pc = "closing", !.response = "cancel",
                                 !.timeout_active = active, !.late_tick = nested]
    /\ snap' = [snap EXCEPT !.taken = TRUE,
                            !.successful = state.successful_conversions,
                            !.nerrors = Len(errors), !.nfutures = Len(futures)]
    /\ UNCHANGED <<mode, setup, nfiles, errors, workers, procs, pm, fs, nm, fg, tp>>

\* the dialog's main loop returns: run_progress_dialog destroys the window,
\* _show_completion_results, then BatchAction.run's finally calls
\* BatchFileProcessor.shutdown, which waits for the pool
BatchDialogReturn ==
    /\ mode = "batch" /\ ctl.pc = "closing"
    /\ SetBundle(CancelCurrentConversion(Bundle))
    /\ ctl' = [ctl EXCEPT
                 !.pc = "joining", !.timeout_active = FALSE,
                 !.output_directory =
                     IF state.cancelled /\ ~\E path \in fs : path.dir = @
                     THEN "none" ELSE @,
                 !.errors_reported = ~state.cancelled /\ errors # <<>>]
    /\ UNCHANGED <<mode, setup, nfiles, state, errors, workers, procs, pm, fs, snap, nm, fg, tp>>

\* executor.shutdown(wait=True) returns: no work item is queued or running
BatchShutdownJoin ==
    /\ mode = "batch" /\ ctl.pc = "joining"
    /\ \A w \in DOMAIN workers : workers[w] = 0
    /\ \A f \in DOMAIN futures : futures[f].st # "pending"
    /\ ctl' = [ctl EXCEPT !.pc = "done"]
    /\ UNCHANGED <<mode, setup, nfiles, state, errors, fp, futures, workers, convs,
                   procs, pm, fs, temps, snap, nm, fg, tp>>

\* the command plans a batch is run with: one command, one command with a
\* temp file into an output directory, a two-step chain into an output
\* directory
BatchSetups ==
    { [steps |-> <<>>, shell |-> FALSE, tmpl |-> "none", output_dir |-> "none",
       unresolved |-> FALSE],
      [steps |-> <<>>, shell |-> FALSE, tmpl |-> "file", output_dir |-> "out",
       unresolved |-> FALSE],
      [steps |-> <<"cmd", "cmd">>, shell |-> FALSE, tmpl |-> "none", output_dir |-> "out",
       unresolved |-> FALSE],
      [steps |-> <<>>, shell |-> FALSE, tmpl |-> "both", output_dir |-> "out",
       unresolved |-> TRUE] }

InitBatch ==
    /\ mode = "batch"
    /\ setup \in BatchSetups
    /\ nfiles \in 1..MaxFiles
    /\ state = IdleState
    /\ errors = <<>>
    /\ fp = [current_future |-> 0, current_converter |-> 0]
    /\ futures = <<>>
    /\ workers = [w \in 1..MAX_WORKERS |-> 0]
    /\ convs = <<>>
    /\ procs = <<>>
    /\ ctl = IdleCtl
    /\ pm = IdlePm
    /\ fs \in { { SourcePath(i) : i \in 0..(nfiles - 1) } \cup x :
                x \in SUBSET { Path("src", <<"a">> \o TargetExtension) } }
    /\ temps = <<>>
    /\ snap = IdleSnap
    /\ tp = IdleTp
    /\ nm = IdleNm
    /\ fg = IdleFg

NextBatch ==
    \/ BatchStart
    \/ BatchTick
    \/ BatchCancel
    \/ BatchDialogReturn
    \/ BatchShutdownJoin
    \/ \E w \in 1..MAX_WORKERS : WorkerPick(w)
    \/ \E w \in 1..MAX_WORKERS : WorkerValidate(w)
    \/ \E w \in 1..MAX_WORKERS : WorkerFinish(w)
    \/ \E c \in DOMAIN convs : ExecEntry(c)
    \/ \E c \in DOMAIN convs : ExecLoopTop(c)
    \/ \E c \in DOMAIN convs : ExecSpawn(c)
    \/ \E c \in DOMAIN convs : ExecPoll(c)
    \/ \E p \in DOMAIN procs : ProcWrite(p)
    \/ \E p \in DOMAIN procs : ProcExit(p)

SpecBatch == InitBatch /\ [][NextBatch]_vars

\* a dispatch of the timeout source would change the state:
\* _handle_progress_timeout has something to do (it only pulses the bar
\* while the current conversion is still running)
TickDue ==
    /\ mode = "batch" /\ TimeoutMayFire
    /\ \/ state.cancelling \/ state.cancelled \/ ~state.running
       \/ state.current_index >= nfiles
       \/ IsConversionComplete(Bundle)
       \/ fp.current_future = 0

\* the GLib main loop keeps dispatching the timeout source while it is
\* active: weak fairness of BatchTick, with its enabling condition written
\* out as TickDue
TickFairness == []<>(~TickDue) \/ []<><<BatchTick>>_vars

\* the control context keeps running: the main loop dispatches the timeout,
\* run_progress_dialog returns once the dialog has its response, and
\* shutdown returns once the pool has no work left.  Nothing is assumed
\* about the pool thread and the subprocesses.
SpecBatchControl ==
    /\ InitBatch /\ [][NextBatch]_vars
    /\ TickFairness
    /\ WF_vars(BatchDialogReturn)
    /\ WF_vars(BatchShutdownJoin)

\* in addition the pool thread runs whenever it has something to do, and
\* every subprocess exits
SpecBatchFair ==
    /\ InitBatch /\ [][NextBatch]_vars
    /\ TickFairness
    /\ WF_vars(BatchDialogReturn)
    /\ WF_vars(BatchShutdownJoin)
    /\ WF_vars(\E w \in 1..MAX_WORKERS : WorkerPick(w))
    /\ WF_vars(\E w \in 1..MAX_WORKERS : WorkerValidate(w))
    /\ WF_vars(\E w \in 1..MAX_WORKERS : WorkerFinish(w))
    /\ WF_vars(\E c \in DOMAIN convs : ExecEntry(c))
    /\ WF_vars(\E c \in DOMAIN convs : ExecLoopTop(c))
    /\ WF_vars(\E c \in DOMAIN convs : ExecSpawn(c))
    /\ WF_vars(\E c \in DOMAIN convs : ExecPoll(c))
    /\ WF_vars(\E p \in DOMAIN procs : ProcExit(p))

(***************************************************************************)
(* BatchAction.run from its entry: the files handed to the action are      *)
(* validated, the target format is asked for and the output directory set  *)
(* up before the first conversion is started.                              *)
(***************************************************************************)
\* how the choice of the target format ends: get_common_formats returns
\* nothing, the operator closes the selection dialog, or picks a format
FormatSelections == {"no_formats", "declined", "selected"}

\* faulty variant: the output directory is set up before the target format
\* is asked for
BatchRunEagerDirectory ==
    /\ mode = "batch" /\ ctl.pc = "run"
    /\ LET valid == Cardinality({ i \in 0..(nfiles - 1) : SourcePath(i) \in fs })
       IN /\ nfiles' = valid
          /\ IF valid = 0
             THEN ctl' = [ctl EXCEPT !.pc = "done", !.run = "aborted"]
             ELSE \E selection \in FormatSelections :
                     ctl' = [ctl EXCEPT
                               !.pc = IF selection = "selected" THEN "init" ELSE "done",
                               !.run = IF selection = "selected" THEN "started"
                                       ELSE "aborted",
                               !.selection = selection,
                               !.output_directory = setup.output_dir]
    /\ UNCHANGED <<mode, setup, state, errors, fp, futures, workers, convs, procs, pm,
                   fs, temps, snap, nm, fg, tp>>

\* BatchAction.run up to _perform_batch_conversion: _validate_files keeps
\* the files that exist (nfiles becomes their number), _select_target_format
\* and _setup_output_directory follow; run returns False, through its
\* finally, when no file is valid or no format was selected
BatchRun ==
    /\ mode = "batch" /\ ctl.pc = "run"
    /\ LET valid == Cardinality({ i \in 0..(nfiles - 1) : SourcePath(i) \in fs })
       IN /\ nfiles' = valid
          /\ IF valid = 0
             THEN ctl' = [ctl EXCEPT !.pc = "done", !.run = "aborted"]
             ELSE \E selection \in FormatSelections :
                     IF selection # "selected"
                     THEN ctl' = [ctl EXCEPT !.pc = "done", !.run = "aborted",
                                             !.selection = selection]
                     ELSE ctl' = [ctl EXCEPT !.pc = "init", !.run = "started",
                                             !.selection = selection,
                                             !.output_directory = setup.output_dir]
    /\ UNCHANGED <<mode, setup, state, errors, fp, futures, workers, convs, procs, pm,
                   fs, temps, snap, nm, fg, tp>>

\* the action is handed up to MaxFiles files, of which the first ones exist
InitRun ==
    /\ mode = "batch"
    /\ setup \in BatchSetups
    /\ nfiles \in 0..MaxFiles
    /\ state = IdleState
    /\ errors = <<>>
    /\ fp = [current_future |-> 0, current_converter |-> 0]
    /\ futures = <<>>
    /\ workers = [w \in 1..MAX_WORKERS |-> 0]
    /\ convs = <<>>
    /\ procs = <<>>
    /\ ctl = [IdleCtl EXCEPT !.pc = "run"]
    /\ pm = IdlePm
    /\ \E existing \in 0..nfiles :
          fs \in { { SourcePath(i) : i \in 0..(existing - 1) } \cup x :
                   x \in SUBSET { Path("src", <<"a">> \o TargetExtension) } }
    /\ temps = <<>>
    /\ snap = IdleSnap
    /\ tp = IdleTp
    /\ nm = IdleNm
    /\ fg = IdleFg

NextRun ==
    \/ BatchRun
    \/ NextBatch

SpecRun == InitRun /\ [][NextRun]_vars

(***************************************************************************)
(* BatchFileProcessor on its own: a caller that invokes start_conversion   *)
(* whenever it likes, with a cancel_check that stays false.                *)
(***************************************************************************)
\* the subprocesses alive for the Converter the processor holds
ActiveProcs ==
    { p \in DOMAIN procs :
        procs[p].st = "alive" /\ procs[p].conv = fp.current_converter }

\* BatchFileProcessor.start_conversion for the next file
CallStartConversion ==
    /\ mode = "batch" /\ ctl.pc = "api" /\ Len(futures) < nfiles
    /\ SetBundle(StartConversion(Bundle, Len(futures), "converter", fs))
    /\ snap' = IF ActiveProcs # {}
               THEN [snap EXCEPT !.superseded = fp.current_converter,
                                 !.superseded_proc = CHOOSE p \in ActiveProcs : TRUE]
               ELSE snap
    /\ UNCHANGED <<mode, setup, nfiles, state, errors, workers, procs, ctl, pm, fs, nm, fg, tp>>

InitProcessor ==
    /\ mode = "batch"
    /\ setup \in BatchSetups
    /\ nfiles = MaxFiles
    /\ state = IdleState
    /\ errors = <<>>
    /\ fp = [current_future |-> 0, current_converter |-> 0]
    /\ futures = <<>>
    /\ workers = [w \in 1..MAX_WORKERS |-> 0]
    /\ convs = <<>>
    /\ procs = <<>>
    /\ ctl = [IdleCtl EXCEPT !.pc = "api"]
    /\ pm = IdlePm
    /\ fs = { SourcePath(i) : i \in 0..(nfiles - 1) }
    /\ temps = <<>>
    /\ snap = IdleSnap
    /\ tp = IdleTp
    /\ nm = IdleNm
    /\ fg = IdleFg

NextProcessor ==
    \/ CallStartConversion
    \/ \E w \in 1..MAX_WORKERS : WorkerPick(w)
    \/ \E w \in 1..MAX_WORKERS : WorkerValidate(w)
    \/ \E w \in 1..MAX_WORKERS : WorkerFinish(w)
    \/ \E c \in DOMAIN convs : ExecEntry(c)
    \/ \E c \in DOMAIN convs : ExecLoopTop(c)
    \/ \E c \in DOMAIN convs : ExecSpawn(c)
    \/ \E c \in DOMAIN convs : ExecPoll(c)
    \/ \E p \in DOMAIN procs : ProcWrite(p)
    \/ \E p \in DOMAIN procs : ProcExit(p)

SpecProcessor == InitProcessor /\ [][NextProcessor]_vars

(***************************************************************************)
(* SingleAction with ProgressManager: the control context of a single      *)
(* conversion.  Its Converter is convs[1].                                 *)
(***************************************************************************)
\* on_response / on_delete_event of ProgressManager's dialog, with
\* internal_cancel_callback and the progress tracker's cancel callback
SingleOnCancel(cv) == [cv EXCEPT !.cs_cancelled = TRUE, !.pt_cancelled = TRUE]

\* SingleAction.run: create_converter, then Converter.convert up to the
\* start of the execution thread and of the dialog's main loop; an
\* exception of create_converter is caught and reported by run
SingleStart ==
    /\ mode = "single" /\ ctl.pc = "init"
    /\ LET nc == NewConverter(0, fs, temps, 1)
       IN \/ /\ convs' = << [nc.conv EXCEPT !.pc = "exec", !.ex_pc = "entry"] >>
             /\ temps' = nc.temps
             /\ pm' = [pm EXCEPT !.thread = "alive"]
             /\ ctl' = [ctl EXCEPT !.pc = "dialog", !.timeout_active = TRUE]
             /\ UNCHANGED fs
          \/ LET tail == ConvertTail(nc.conv, "missing_tool", NoResult, fs, nc.temps)
             IN /\ ~setup.unresolved
                /\ convs' = << tail.conv >>
                /\ temps' = tail.temps
                /\ fs' = tail.fs
                /\ ctl' = [ctl EXCEPT !.pc = "done"]
                /\ UNCHANGED pm
          \/ \E created \in CreateOutcomes \ {"converter", "none"} :
                /\ temps' = temps \o TempsBeforeRaise(created, 1)
                /\ ctl' = [ctl EXCEPT !.pc = "done", !.exception = "caught"]
                /\ UNCHANGED <<convs, pm, fs>>
    /\ UNCHANGED <<mode, setup, nfiles, state, errors, fp, futures, workers, procs,
                   snap, nm, fg, tp>>

\* ProgressManager._make_progress_callback.progress_callback, called by the
\* GLib timeout of the dialog
SingleTick ==
    /\ mode = "single" /\ TimeoutMayFire
    /\ LET late == (ctl.pc = "closing")
       IN IF pm.cancelling
          THEN IF pm.thread = "alive" /\ pm.counter + 1 < PM_MAX_CANCELLING_TIMEOUTS
               THEN /\ pm' = [pm EXCEPT !.counter = @ + 1]
                    /\ ctl' = [ctl EXCEPT !.late_tick = late]
                    /\ UNCHANGED convs
               ELSE /\ pm' = [pm EXCEPT !.counter = IF pm.thread = "alive" THEN @ + 1 ELSE @]
                    /\ convs' = [convs EXCEPT ![1] = SingleOnCancel(@)]
                    /\ ctl' = [ctl EXCEPT !.pc = "closing", !.response = "cancel",
                                           !.timeout_active = FALSE, !.late_tick = late]
          ELSE IF pm.cancelled
          THEN /\ ctl' = [ctl EXCEPT !.timeout_active = FALSE, !.late_tick = late]
               /\ UNCHANGED <<pm, convs>>
          ELSE IF pm.thread = "alive"
          THEN /\ ctl' = [ctl EXCEPT !.late_tick = late]
               /\ UNCHANGED <<pm, convs>>
          ELSE /\ ctl' = [ctl EXCEPT !.pc = "closing", !.response = "ok",
                                      !.timeout_active = FALSE, !.late_tick = late]
               /\ UNCHANGED <<pm, convs>>
    /\ UNCHANGED <<mode, setup, nfiles, state, errors, fp, futures, workers, procs,
                   fs, temps, snap, nm, fg, tp>>

\* the operator cancels: on_response of ProgressManager's dialog; nested:
\* the event is dispatched by the main_iteration loop of progress_callback,
\* which goes on to look at the execution thread
SingleCancel ==
    /\ mode = "single" /\ ctl.pc = "dialog"
    /\ pm' = [pm EXCEPT !.cancelled = TRUE, !.cancelling = TRUE]
    /\ convs' = [convs EXCEPT ![1] = SingleOnCancel(@)]
    /\ \E nested \in BOOLEAN :
         /\ nested => ctl.timeout_active
         /\ ctl' = [ctl EXCEPT
                      !.pc = "closing",
                      !.response = IF nested /\ pm.thread # "alive" THEN "ok" ELSE "cancel",
                      !.timeout_active = IF nested THEN pm.thread = "alive" ELSE @,
                      !.late_tick = nested]
    /\ snap' = [snap EXCEPT !.taken = TRUE, !.thread_alive = (pm.thread = "alive"),
                            !.target_present = (convs[1].target \in fs)]
    /\ UNCHANGED <<mode, setup, nfiles, state, errors, fp, futures, workers, procs,
                   fs, temps, nm, fg, tp>>

\* execute_with_progress after the dialog's main loop returned, and
\* Converter.convert from that result to its return
SingleFinish ==
    /\ mode = "single" /\ ctl.pc = "closing"
    /\ LET res == IF ctl.response = "cancel" \/ pm.cancelled THEN CancelledResult
                  ELSE IF convs[1].res.done THEN convs[1].res
                  ELSE Result(FALSE, FALSE, NoMessage, 0)
           tail == ConvertTail(convs[1], "result", res, fs, temps)
       IN /\ convs' = << tail.conv >>
          /\ fs' = tail.fs
          /\ temps' = tail.temps
    /\ ctl' = [ctl EXCEPT !.pc = "done", !.timeout_active = FALSE]
    /\ UNCHANGED <<mode, setup, nfiles, state, errors, fp, futures, workers, procs,
                   pm, snap, nm, fg, tp>>

\* the command plans a single conversion is run with
SingleSetups ==
    { [steps |-> s, shell |-> sh, tmpl |-> t, output_dir |-> "none",
       unresolved |-> FALSE] :
        s \in {<<>>} \cup ChainPlans, sh \in BOOLEAN, t \in TemplateKinds }
      \cup { [steps |-> <<>>, shell |-> FALSE, tmpl |-> t, output_dir |-> "none",
              unresolved |-> TRUE] : t \in TemplateKinds }

InitSingle ==
    /\ mode = "single"
    /\ setup \in SingleSetups
    /\ nfiles = 1
    /\ state = IdleState
    /\ errors = <<>>
    /\ fp = [current_future |-> 0, current_converter |-> 0]
    /\ futures = <<>>
    /\ workers = [w \in 1..MAX_WORKERS |-> 0]
    /\ convs = <<>>
    /\ procs = <<>>
    /\ ctl = IdleCtl
    /\ pm = IdlePm
    /\ fs \in { {SourcePath(0)} \cup x :
                x \in SUBSET { Path("src", <<"a">> \o TargetExtension) } }
    /\ temps = <<>>
    /\ snap = IdleSnap
    /\ tp = IdleTp
    /\ nm = IdleNm
    /\ fg = IdleFg

NextSingle ==
    \/ SingleStart
    \/ SingleTick
    \/ SingleCancel
    \/ SingleFinish
    \/ \E c \in DOMAIN convs : ExecEntry(c)
    \/ \E c \in DOMAIN convs : ExecLoopTop(c)
    \/ \E c \in DOMAIN convs : ExecSpawn(c)
    \/ \E c \in DOMAIN convs : ExecPoll(c)
    \/ \E p \in DOMAIN procs : ProcWrite(p)
    \/ \E p \in DOMAIN procs : ProcExit(p)

SpecSingle == InitSingle /\ [][NextSingle]_vars

(***************************************************************************)
(* Target naming on its own: FileManager.ensure_unique_filename applied to *)
(* a computed target path, over the directory contents it may meet.        *)
(***************************************************************************)
\* the target names planned: photo.png, archive.tar.gz, b.gz, notes
NamingTargets ==
    { [base |-> <<"photo">>, ext |-> <<".png">>],
      [base |-> <<"archive">>, ext |-> <<".tar", ".gz">>],
      [base |-> <<"b">>, ext |-> <<".gz">>],
      [base |-> <<"notes">>, ext |-> <<>>] }

\* the paths of the directory that matter for target t: the computed path
\* and its numbered variants
NamingCandidates(t) ==
    { Path("dir", t.base \o t.ext) }
      \cup { Path("dir", t.base \o <<" (" \o ToString(k) \o ")">> \o t.ext) :
               k \in 1..MaxCounter }

InitNaming ==
    /\ mode = "naming"
    /\ setup = [steps |-> <<>>, shell |-> FALSE, tmpl |-> "none", output_dir |-> "none",
       unresolved |-> FALSE]
    /\ nfiles = 1
    /\ state = IdleState
    /\ errors = <<>>
    /\ fp = [current_future |-> 0, current_converter |-> 0]
    /\ futures = <<>>
    /\ workers = [w \in 1..MAX_WORKERS |-> 0]
    /\ convs = <<>>
    /\ procs = <<>>
    /\ ctl = IdleCtl
    /\ pm = IdlePm
    /\ temps = <<>>
    /\ snap = IdleSnap
    /\ tp = IdleTp
    /\ fg = IdleFg
    /\ \E t \in NamingTargets :
         /\ nm = [base |-> t.base, ext |-> t.ext, target |-> Path("dir", t.base \o t.ext),
                  result |-> Path("", <<>>), done |-> FALSE,
                  compiled |-> FALSE, command_output |-> Path("", <<>>),
                  occupied |-> FALSE]
         /\ fs \in SUBSET NamingCandidates(t)

\* Converter.__init__: self.target_file = ensure_unique_filename(target_file)
PlanTarget ==
    /\ mode \in {"naming", "construct"} /\ ~nm.done
    /\ nm' = [nm EXCEPT !.result = EnsureUniqueFilename(fs, nm.target), !.done = TRUE]
    /\ UNCHANGED <<engineVars, procs, fs, fg, tp>>

NextNaming == PlanTarget

SpecNaming == InitNaming /\ [][NextNaming]_vars

(***************************************************************************)
(* Converter construction step by step: the target is planned, then the    *)
(* command is compiled from the template, while other programs write into  *)
(* the target directory.                                                   *)
(***************************************************************************)
InitConstruct ==
    /\ mode = "construct"
    /\ setup = [steps |-> <<>>, shell |-> FALSE, tmpl |-> "none", output_dir |-> "none",
       unresolved |-> FALSE]
    /\ nfiles = 1
    /\ state = IdleState
    /\ errors = <<>>
    /\ fp = [current_future |-> 0, current_converter |-> 0]
    /\ futures = <<>>
    /\ workers = [w \in 1..MAX_WORKERS |-> 0]
    /\ convs = <<>>
    /\ procs = <<>>
    /\ ctl = IdleCtl
    /\ pm = IdlePm
    /\ temps = <<>>
    /\ snap = IdleSnap
    /\ tp = IdleTp
    /\ fg = IdleFg
    /\ \E t \in NamingTargets :
         /\ nm = [IdleNm EXCEPT !.base = t.base, !.ext = t.ext,
                                !.target = Path("dir", t.base \o t.ext)]
         /\ fs \in SUBSET NamingCandidates(t)

\* another program creates an entry of the target directory while the
\* Converter is between the planning of its target and the end of the
\* template compilation
OtherProgramCreates ==
    /\ mode = "construct" /\ nm.done /\ ~nm.compiled
    /\ \E path \in NamingCandidates([base |-> nm.base, ext |-> nm.ext]) \ fs :
         /\ fs' = fs \cup {path}
         /\ nm' = [nm EXCEPT !.occupied = @ \/ path = nm.result]
    /\ UNCHANGED <<engineVars, procs, fg, tp>>

\* Converter.build_command -> build_command_from_template: the command is
\* compiled with self.target_file as its output file; target_file is left
\* as planned
BuildCommand ==
    /\ mode = "construct" /\ nm.done /\ ~nm.compiled
    /\ nm' = [nm EXCEPT !.compiled = TRUE, !.command_output = nm.result]
    /\ UNCHANGED <<engineVars, procs, fs, fg, tp>>

NextConstruct ==
    \/ PlanTarget
    \/ OtherProgramCreates
    \/ BuildCommand

SpecConstruct == InitConstruct /\ [][NextConstruct]_vars

(***************************************************************************)
(* Format resolution on its own: get_available_formats asked for a source  *)
(* format, over the settings that may be loaded.                           *)
(***************************************************************************)
InitFormats ==
    /\ mode = "formats"
    /\ setup = [steps |-> <<>>, shell |-> FALSE, tmpl |-> "none", output_dir |-> "none",
       unresolved |-> FALSE]
    /\ nfiles = 1
    /\ state = IdleState
    /\ errors = <<>>
    /\ fp = [current_future |-> 0, current_converter |-> 0]
    /\ futures = <<>>
    /\ workers = [w \in 1..MAX_WORKERS |-> 0]
    /\ convs = <<>>
    /\ procs = <<>>
    /\ ctl = IdleCtl
    /\ pm = IdlePm
    /\ fs = {}
    /\ temps = <<>>
    /\ snap = IdleSnap
    /\ tp = IdleTp
    /\ nm = IdleNm
    /\ \E settings \in SettingsChoices : fg = [IdleFg EXCEPT !.settings = settings]

\* no call is recorded yet.  The calls are functions of the settings alone
\* (the settings are loaded once and cached), so a behaviour holds one call.
NoCallYet ==
    ~fg.asked /\ ~fg.canonical.asked /\ ~fg.batch.asked /\ ~fg.lookup.asked

\* format_config.get_available_formats(source_format)
CallGetAvailableFormats ==
    /\ mode = "formats" /\ NoCallYet
    /\ \E source_format \in SourceArguments :
         fg' = [IdleFg EXCEPT !.settings = fg.settings,
                              !.source = source_format,
                              !.result = GetAvailableFormats(fg.settings, source_format),
                              !.asked = TRUE]
    /\ UNCHANGED <<engineVars, procs, fs, nm, tp>>

\* FormatConfiguration.get_canonical_format(format_name), and the same
\* call on the name it returned
CallGetCanonicalFormat ==
    /\ mode = "formats" /\ NoCallYet
    /\ \E format_name \in SourceArguments :
         LET value == GetCanonicalFormat(fg.settings, format_name)
         IN fg' = [IdleFg EXCEPT !.settings = fg.settings,
                                 !.canonical =
                                   [asked |-> TRUE, name |-> format_name,
                                    value |-> value,
                                    again |-> GetCanonicalFormat(fg.settings, value)]]
    /\ UNCHANGED <<engineVars, procs, fs, nm, tp>>

\* BatchAction._select_target_format: get_common_formats(list(source_formats))
\* for the formats of the valid files
CallGetCommonFormats ==
    /\ mode = "formats" /\ NoCallYet
    /\ \E source_formats \in SUBSET Tags \ {{}} :
         fg' = [IdleFg EXCEPT !.settings = fg.settings,
                              !.batch =
                                [asked |-> TRUE, source_formats |-> source_formats,
                                 result |-> GetCommonFormats(fg.settings, source_formats)]]
    /\ UNCHANGED <<engineVars, procs, fs, nm, tp>>

NextFormats ==
    \/ CallGetAvailableFormats
    \/ CallGetCanonicalFormat
    \/ CallGetCommonFormats

SpecFormats == InitFormats /\ [][NextFormats]_vars

(***************************************************************************)
(* Rule lookup on its own: get_conversion_rule asked for a pair of formats,*)
(* over the special rules and the alias tables of the settings.            *)
(***************************************************************************)
Range(seq) == { seq[i] : i \in DOMAIN seq }

InitRules ==
    /\ mode = "rules"
    /\ setup = [steps |-> <<>>, shell |-> FALSE, tmpl |-> "none", output_dir |-> "none",
       unresolved |-> FALSE]
    /\ nfiles = 1
    /\ state = IdleState
    /\ errors = <<>>
    /\ fp = [current_future |-> 0, current_converter |-> 0]
    /\ futures = <<>>
    /\ workers = [w \in 1..MAX_WORKERS |-> 0]
    /\ convs = <<>>
    /\ procs = <<>>
    /\ ctl = IdleCtl
    /\ pm = IdlePm
    /\ fs = {}
    /\ temps = <<>>
    /\ snap = IdleSnap
    /\ tp = IdleTp
    /\ nm = IdleNm
    /\ \E aliases \in AliasTables, rules \in RuleLists(MaxRuleList) :
         fg = [IdleFg EXCEPT !.settings.format_aliases = aliases,
                             !.settings.special_rules = Range(rules),
                             !.rule_list = rules]

\* format_config.get_conversion_rule(from_format, to_format)
CallGetConversionRule ==
    /\ mode = "rules" /\ NoCallYet
    /\ \E from_format \in SourceArguments, to_format \in Tags :
         fg' = [fg EXCEPT !.lookup =
                  [asked |-> TRUE, from |-> from_format, to |-> to_format,
                   returned |-> GetConversionRule(fg.settings, fg.rule_list,
                                                  from_format, to_format)]]
    /\ UNCHANGED <<engineVars, procs, fs, nm, tp>>

NextRules == CallGetConversionRule

SpecRules == InitRules /\ [][NextRules]_vars

(***************************************************************************)
(* TemplateProcessor on its own: the substituted command string is parsed  *)
(* (argv or shell), and the existence checks are injected into a chain.    *)
(* A command string is the sequence of its characters.                     *)
(***************************************************************************)
MaxCommandLen == 5

\* CommandParser.is_shell_command
IsShellCommand(command) ==
    LET Has(sub) ==
            \E i \in 0..(Len(command) - Len(sub)) :
               SubSeq(command, i + 1, i + Len(sub)) = sub
        nonblank == { i \in DOMAIN command : command[i] # " " }
        lstrip == IF nonblank = {} THEN <<>>
                  ELSE SubSeq(command,
                              CHOOSE i \in nonblank : \A j \in nonblank : i <= j,
                              Len(command))
        rstrip == IF nonblank = {} THEN <<>>
                  ELSE SubSeq(command, 1,
                              CHOOSE i \in nonblank : \A j \in nonblank : j <= i)
        StartsWith(str, sub) ==
            Len(str) >= Len(sub) /\ SubSeq(str, 1, Len(sub)) = sub
        EndsWith(str, sub) ==
            Len(str) >= Len(sub)
              /\ SubSeq(str, Len(str) - Len(sub) + 1, Len(str)) = sub
    IN \/ Has(<<"&", "&">>) \/ Has(<<"|", "|">>)
       \/ Has(<<" ", "|", " ">>)
       \/ \E op \in { <<">">>, <<">", ">">>, <<"<">>, <<"<", "<">> } :
             \/ Has(<<" ">> \o op \o <<" ">>)
             \/ EndsWith(rstrip, <<" ">> \o op)
             \/ StartsWith(lstrip, op \o <<" ">>)

\* shlex.split: blank-separated words, a quoted part belongs to its word
\* with the quotes removed; ValueError when a quotation is not closed
ShlexSplit(command_str) ==
    LET RECURSIVE Scan(_, _, _, _, _)
        Scan(i, tokens, token, started, quoted) ==
            IF i > Len(command_str)
            THEN IF quoted THEN [ok |-> FALSE, argv |-> <<>>]
                 ELSE [ok |-> TRUE,
                       argv |-> IF started THEN Append(tokens, token) ELSE tokens]
            ELSE LET ch == command_str[i]
                 IN IF quoted
                    THEN IF ch = "'"
                         THEN Scan(i + 1, tokens, token, TRUE, FALSE)
                         ELSE Scan(i + 1, tokens, Append(token, ch), TRUE, TRUE)
                    ELSE IF ch = "'"
                    THEN Scan(i + 1, tokens, token, TRUE, TRUE)
                    ELSE IF ch = " "
                    THEN Scan(i + 1,
                              IF started THEN Append(tokens, token) ELSE tokens,
                              <<>>, FALSE, FALSE)
                    ELSE Scan(i + 1, tokens, Append(token, ch), TRUE, FALSE)
    IN Scan(1, <<>>, <<>>, FALSE, FALSE)

\* TemplateProcessor._parse_command_string for a command string without
\* "&&": nothing for a blank string, [first_tool, command_str] for a shell
\* command, else the argv of CommandParser.parse_command (nothing when
\* shlex.split raises)
ParseCommandString(command_str) ==
    LET nonblank == { i \in DOMAIN command_str : command_str[i] # " " }
        first == CHOOSE i \in nonblank : \A j \in nonblank : i <= j
        blanks_after == { i \in DOMAIN command_str :
                            i > first /\ command_str[i] = " " }
        first_tool ==
            SubSeq(command_str, first,
                   IF blanks_after = {} THEN Len(command_str)
                   ELSE (CHOOSE i \in blanks_after :
                            \A j \in blanks_after : i <= j) - 1)
        split == ShlexSplit(command_str)
    IN IF nonblank = {}
       THEN [command |-> <<>>, is_shell_command |-> FALSE]
       ELSE IF IsShellCommand(command_str)
       THEN [command |-> <<first_tool, command_str>>, is_shell_command |-> TRUE]
       ELSE IF split.ok
       THEN [command |-> split.argv, is_shell_command |-> FALSE]
       ELSE [command |-> <<>>, is_shell_command |-> FALSE]

\* the steps a chain handed to the injection is made of, each the sequence
\* of its blank-separated words; "tmp" is the path of the temp resource
ChainSteps ==
    { <<"tool", "in", "tmp">>, <<"mv", "tmp", "out">>, <<"mv", "-f", "tmp", "out">>,
      <<"cat", "tmp", ">", "out">>, <<"cp", "in", "out">>, <<"mv", "in", "tmp">> }

\* TemplateProcessor._inject_file_validation for a chain that acquired a
\* temp resource: the steps after the first one that start with mv, cp or
\* cat and whose word after the command, followed by another word, holds
\* the temp path get "test -f '<that word>'" put before them
InjectFileValidation(steps) ==
    LET RECURSIVE Validated(_)
        Validated(i) ==
            IF i > Len(steps) THEN <<>>
            ELSE LET step == steps[i]
                     match == /\ step[1] \in {"mv", "cp", "cat"}
                              /\ Len(step) >= 3
                     source_file == step[2]
                 IN (IF match /\ source_file = "tmp"
                     THEN << <<"test", "-f", source_file>> >>
                     ELSE <<>>)
                      \o <<step>> \o Validated(i + 1)
    IN IF Len(steps) < 2 THEN steps
       ELSE <<steps[1]>> \o Validated(2)

InitTemplate ==
    /\ mode = "template"
    /\ setup = [steps |-> <<>>, shell |-> FALSE, tmpl |-> "none", output_dir |-> "none",
                unresolved |-> FALSE]
    /\ nfiles = 1
    /\ state = IdleState
    /\ errors = <<>>
    /\ fp = [current_future |-> 0, current_converter |-> 0]
    /\ futures = <<>>
    /\ workers = [w \in 1..MAX_WORKERS |-> 0]
    /\ convs = <<>>
    /\ procs = <<>>
    /\ ctl = IdleCtl
    /\ pm = IdlePm
    /\ fs = {}
    /\ temps = <<>>
    /\ snap = IdleSnap
    /\ nm = IdleNm
    /\ fg = IdleFg
    /\ \/ \E n \in 0..MaxCommandLen :
             \E command_str \in [1..n -> {"a", " ", ">", "|", "'"}] :
                tp = [IdleTp EXCEPT !.command_str = command_str]
       \/ \E n \in 2..MaxSteps :
             \E steps \in [1..n -> ChainSteps] :
                tp = [IdleTp EXCEPT !.steps = steps]

\* _process_template -> _parse_command_string(command_str)
CallParseCommandString ==
    /\ mode = "template" /\ tp.steps = <<>> /\ ~tp.parsed
    /\ LET parsed == ParseCommandString(tp.command_str)
       IN tp' = [tp EXCEPT !.parsed = TRUE,
                           !.command = parsed.command,
                           !.is_shell_command = parsed.is_shell_command]
    /\ UNCHANGED <<engineVars, procs, fs, nm, fg>>

\* _process_template -> _inject_file_validation(command_str, ...)
CallInjectFileValidation ==
    /\ mode = "template" /\ tp.steps # <<>> /\ ~tp.injected
    /\ tp' = [tp EXCEPT !.injected = TRUE,
                        !.validated_steps = InjectFileValidation(tp.steps)]
    /\ UNCHANGED <<engineVars, procs, fs, nm, fg>>

NextTemplate ==
    \/ CallParseCommandString
    \/ CallInjectFileValidation

SpecTemplate == InitTemplate /\ [][NextTemplate]_vars

(***************************************************************************)
(* Properties of the batch orchestration (SpecBatch).                      *)
(***************************************************************************)
\* C1: in a batch the files are started in list order, and the conversion
\* of a file other than the first is submitted only when the result of the
\* file before it has been recorded (counted as a success or appended to
\* the errors, with the current index advanced past it)
C1_StartsAfterResultRecorded ==
    mode = "batch" =>
      \A k \in DOMAIN futures :
         /\ futures[k].file = k - 1
         /\ k > 1 => /\ futures[k - 1].recorded
                     /\ state.current_index >= k - 1
                     /\ state.successful_conversions + Len(errors) >= k - 1

\* the third file runs in the pool after the second one failed
C1_Witness ==
    /\ mode = "batch" /\ Len(futures) = 3
    /\ workers[1] = 3
    /\ errors # <<>> /\ errors[Len(errors)].file = 1

\* C2: at every moment of a batch at most one pool thread is inside a
\* conversion, at most one Converter is being converted, and at most one
\* conversion subprocess is alive
C2_OneWorkerOneSubprocess ==
    mode = "batch" =>
      /\ Cardinality({ w \in DOMAIN workers : workers[w] # 0 }) <= 1
      /\ Cardinality({ c \in DOMAIN convs : convs[c].pc \in {"validate", "exec"} }) <= 1
      /\ Cardinality({ p \in DOMAIN procs : procs[p].st = "alive" }) <= 1

\* the subprocess of the second file is alive, the one of the first file
\* has exited
C2_Witness ==
    /\ mode = "batch"
    /\ \E p, q \in DOMAIN procs :
         /\ procs[p].st = "alive" /\ convs[procs[p].conv].file = 1
         /\ procs[q].st = "ok" /\ convs[procs[q].conv].file = 0

\* C3: when a batch has run to its end without cancellation, every file was
\* submitted exactly once, in list order, the success count is the number
\* of files whose conversion returned success, and the errors hold exactly
\* one entry for each other file, in list order
C3_CompletedBatchAccounting ==
    (mode = "batch" /\ ctl.pc = "done" /\ ~state.cancelled /\ ctl.response = "ok") =>
      /\ Len(futures) = nfiles
      /\ \A k \in DOMAIN futures : futures[k].file = k - 1 /\ futures[k].st = "finished"
      /\ state.successful_conversions
           = Cardinality({ k \in DOMAIN futures : futures[k].success })
      /\ Len(errors) = Cardinality({ k \in DOMAIN futures : ~futures[k].success })
      /\ \A k \in DOMAIN futures :
           ~futures[k].success <=> \E j \in DOMAIN errors : errors[j].file = k - 1
      /\ \A i, j \in DOMAIN errors : i < j => errors[i].file < errors[j].file

\* three files, the second fails and the third succeeds: success count 2,
\* one error entry, for the second file
C3_Witness ==
    /\ mode = "batch" /\ ctl.pc = "done" /\ ~state.cancelled /\ nfiles = 3
    /\ ctl.response = "ok" /\ Len(futures) = 3
    /\ futures[1].success /\ ~futures[2].success /\ futures[3].success
    /\ state.successful_conversions = 2
    /\ Len(errors) = 1 /\ errors[1].file = 1

\* C4: once the operator has requested the cancellation of a batch no
\* further conversion is submitted, no submitted one is left to start, and
\* the success count and the errors are those recorded at the request
C4_NothingStartsAfterCancel ==
    (mode = "batch" /\ snap.taken) =>
      /\ Len(futures) = snap.nfutures
      /\ \A f \in DOMAIN futures : futures[f].st # "pending"
      /\ state.successful_conversions = snap.successful
      /\ Len(errors) = snap.nerrors

\* a batch of three files cancelled during its third file, after one
\* success and one failure, has returned
C4_Witness ==
    /\ mode = "batch" /\ snap.taken /\ ctl.pc = "done" /\ nfiles = 3
    /\ snap.nfutures = 3 /\ snap.successful = 1 /\ snap.nerrors = 1
    /\ state.successful_conversions = 1 /\ Len(errors) = 1

\* C13 as stated: in a batch no exception of a file's conversion leaves
\* the callbacks of the control context or ends the batch, and a batch that
\* has ended without cancellation has recorded a success or an error for
\* every one of its files
C13_FileFailureRecordedBatchContinues ==
    mode = "batch" =>
      /\ ctl.exception = "none"
      /\ (ctl.pc = "done" /\ ~state.cancelled)
           => /\ state.current_index = nfiles
              /\ state.successful_conversions + Len(errors) = nfiles

\* C18: in a batch no file gets a second Converter, and no step of a
\* file's command plan is spawned a second time, whatever the outcome of
\* its first run; the steps of a plan are spawned in their order
C18_NoStepSpawnedTwice ==
    mode = "batch" =>
      /\ \A c, d \in DOMAIN convs : c # d => convs[c].file # convs[d].file
      /\ \A p, q \in DOMAIN procs :
           (p < q /\ convs[procs[p].conv].file = convs[procs[q].conv].file)
              => /\ procs[p].conv = procs[q].conv
                 /\ procs[p].step < procs[q].step

\* a batch of two files with a two-step chain has ended: the second step of
\* the first file failed, both steps of the second file succeeded, and
\* three steps plus the failed one are all the subprocesses there were
C18_Witness ==
    /\ mode = "batch" /\ ctl.pc = "done" /\ nfiles = 2 /\ IsRegularChain
    /\ Len(procs) = 4
    /\ procs[1].step = 0 /\ procs[1].st = "ok"
    /\ procs[2].step = 1 /\ procs[2].st = "fail" /\ procs[2].conv = procs[1].conv
    /\ procs[3].step = 0 /\ procs[3].st = "ok"
    /\ procs[4].step = 1 /\ procs[4].st = "ok" /\ procs[4].conv = procs[3].conv
    /\ Len(errors) = 1 /\ state.successful_conversions = 1

\* C16 as stated: once the operator has requested the cancellation of a
\* batch, the control context gets through its cleanup and returns, whether
\* or not the pool thread ever ends its conversion
C16_ControlReturnsAfterCancel ==
    (mode = "batch" /\ snap.taken) ~> (ctl.pc = "done")

\* C17 as stated: a batch that has ended is Completed (its dialog got the
\* completion response) exactly when the current index equals the number
\* of files and no cancellation was requested; and, the subprocesses
\* exiting and the timeout being dispatched, every batch whose progress
\* dialog runs eventually ends
C17_EveryBatchTerminates ==
    /\ [](mode = "batch" /\ ctl.pc = "done"
            => (ctl.response = "ok"
                  <=> state.current_index = nfiles /\ ~state.cancelled))
    /\ (mode = "batch" /\ ctl.pc = "dialog") ~> (ctl.pc = "done")

(***************************************************************************)
(* Properties of BatchFileProcessor (SpecProcessor).                       *)
(***************************************************************************)
\* C15 as stated: when start_conversion was invoked while a conversion was
\* running with its subprocess alive, a subprocess of a later conversion
\* exists only once that subprocess has been killed
C15_ActiveSubprocessKilledFirst ==
    (mode = "batch" /\ snap.superseded_proc # 0) =>
      \A q \in DOMAIN procs :
         procs[q].conv > snap.superseded
            => procs[snap.superseded_proc].st = "killed"

C6_NoStepAfterFailure ==
    IsRegularChain =>
      \A p, q \in DOMAIN procs :
         (procs[p].conv = procs[q].conv /\ procs[p].st = "fail")
            => procs[q].step <= procs[p].step

\* the first step of a three-step chain has failed and the chain has
\* returned its result
C6_Witness ==
    /\ IsRegularChain /\ Len(setup.steps) = 3
    /\ \E p \in DOMAIN procs :
         /\ procs[p].st = "fail" /\ procs[p].step = 0
         /\ convs[procs[p].conv].ex_pc = "done"
         /\ ~convs[procs[p].conv].res.success

\* C7 as stated: the step-failure result of a chain names the failing step
\* by its 0-based index
C7_ZeroBasedStepIndex ==
    \A c \in DOMAIN convs :
       (convs[c].res.done /\ convs[c].res.message.kind = "step_failed")
          => convs[c].res.message.step = convs[c].ex_step

\* C7 amended: the step-failure result of a chain names the failing step by
\* its 1-based position among the steps ("Step k/total failed", k the
\* 0-based index plus one) and carries the command of that step
C7_OneBasedStepPosition ==
    \A c \in DOMAIN convs :
       (convs[c].res.done /\ convs[c].res.message.kind = "step_failed")
          => /\ convs[c].res.message.step = convs[c].ex_step + 1
             /\ convs[c].res.message.total = Len(setup.steps)
             /\ convs[c].res.command_step = convs[c].ex_step + 1
             /\ convs[c].ex_proc # 0 /\ procs[convs[c].ex_proc].st = "fail"
                  => procs[convs[c].ex_proc].step + 1 = convs[c].res.message.step

\* of the chain [step1, step2] step1 has exited with failure: the result
\* reads "Step 1/2 failed"
C7_Witness ==
    /\ IsRegularChain /\ Len(setup.steps) = 2
    /\ \E c \in DOMAIN convs :
         /\ convs[c].res.done /\ convs[c].res.message.kind = "step_failed"
         /\ convs[c].ex_step = 0
         /\ convs[c].ex_proc # 0 /\ procs[convs[c].ex_proc].st = "fail"
         /\ convs[c].res.message.step = 1 /\ convs[c].res.message.total = 2

\* C8 as stated: in every execution mode, a result returned by the executor
\* after it observed the cancellation predicate true has cancelled = true
C8_ObservedCancelGivesCancelled ==
    \A c \in DOMAIN convs :
       (convs[c].res.done /\ convs[c].ex_cancelled) => convs[c].res.cancelled

\* C9 as stated: when convert() has returned, every temp resource acquired
\* by the template compilation of its Converter has been released
C9_TempsReleasedAtReturn ==
    \A c \in DOMAIN convs :
       convs[c].pc = "returned"
          => \A t \in DOMAIN temps : temps[t].owner = c => ~temps[t].live

C14_RecordedCommandIsExecutedCommand ==
    LET Contains(hay, needle) ==
            \E i \in 0..(Len(hay) - Len(needle)) :
               SubSeq(hay, i + 1, i + Len(needle)) = needle
        MessageCommand(msg) ==
            IF msg.kind = "step_failed" THEN StepCommand(msg.step) ELSE <<>>
    IN \A c \in DOMAIN convs :
          (/\ convs[c].pc = "returned" /\ convs[c].outcome = "failed"
           /\ convs[c].ex_proc # 0 /\ procs[convs[c].ex_proc].st = "fail")
             => \/ Contains(convs[c].last_command, procs[convs[c].ex_proc].command)
                \/ Contains(MessageCommand(convs[c].error_message),
                            procs[convs[c].ex_proc].command)

(***************************************************************************)
(* Properties of the target naming (SpecNaming).                           *)
(***************************************************************************)
\* C10: the planned target path names no existing entry: it is the
\* computed path when that is free, and otherwise "base (k).ext" for the
\* smallest k >= 1 whose path is free
C10_PlannedTargetIsFree ==
    LET numbered(k) ==
            Path(nm.target.dir, nm.base \o <<" (" \o ToString(k) \o ")">> \o nm.ext)
    IN (mode = "naming" /\ nm.done) =>
         /\ nm.result \notin fs
         /\ nm.target \notin fs => nm.result = nm.target
         /\ nm.target \in fs =>
              \E k \in 1..(MaxCounter + 1) :
                 /\ nm.result = numbered(k)
                 /\ \A j \in 1..(k - 1) : numbered(j) \in fs

\* photo.png and photo (1).png exist: the planned target is photo (2).png
C10_Witness ==
    /\ mode = "naming" /\ nm.done
    /\ nm.target = Path("dir", <<"photo", ".png">>)
    /\ fs = { Path("dir", <<"photo", ".png">>), Path("dir", <<"photo", " (1)", ".png">>) }
    /\ nm.result = Path("dir", <<"photo", " (2)", ".png">>)

(***************************************************************************)
(* Properties of the Converter construction (SpecConstruct).               *)
(***************************************************************************)
\* C11 as stated: when the planned target path became occupied during the
\* template compilation, the compiled command writes to a path that is
\* free when the compilation ends
C11_TargetRecheckedAfterCompilation ==
    (mode = "construct" /\ nm.compiled /\ nm.occupied) => nm.command_output \notin fs

\* C19: a format of a group with internal conversions is never among the
\* available target formats returned for itself, whatever the special rules
\* are and whether canonical formats are used or not.
C19_SourceNeverOwnTarget ==
    (mode = "formats" /\ fg.asked
       /\ GetFormatGroup(fg.source) # "none"
       /\ FormatGroups[GetFormatGroup(fg.source)].internal_conversions)
      => Upper(fg.source) \notin fg.result

\* C20: an output-restricted format is among the returned target formats
\* of a source only if the settings declare a special rule from exactly
\* that source to that format.
C20_RestrictedOnlyByExactRule ==
    (mode = "formats" /\ fg.asked) =>
      \A r \in fg.settings.output_restricted_formats \cap fg.result :
        \E rule \in fg.settings.special_rules :
          rule.from = Upper(fg.source) /\ rule.to = r

\* C21: a target format that the settings' exclusion list excludes for a
\* source format is never among the available target formats returned for
\* that source.
C21_ExcludedPairNeverOffered ==
    (mode = "formats" /\ fg.asked) =>
      \A e \in fg.settings.conversion_exclusions :
        e.from = Upper(fg.source) => e.to \notin fg.result

\* C24: resolving the canonical name of a canonical name gives the same
\* name, for every format name and every alias table of the settings.
C24_CanonicalIdempotent ==
    (mode = "formats" /\ fg.canonical.asked) =>
      fg.canonical.again = fg.canonical.value

\* C22: for a batch of more than one distinct source format the common
\* target formats are the intersection of the available target formats of
\* the sources, plus every source format that is an available target of
\* another source format of the batch; for a single source format they are
\* its available target formats.
C22_BatchTargetsAreIntersectionPlusCross ==
    (mode = "formats" /\ fg.batch.asked) =>
      LET S == fg.batch.source_formats
          targets(s) == GetAvailableFormats(fg.settings, s)
          common == { t \in Tags : \A s \in S : t \in targets(s) }
          reachable == { s \in S : \E other \in S \ {s} : s \in targets(other) }
      IN fg.batch.result = IF Cardinality(S) > 1 THEN common \cup reachable ELSE common

\* C23: get_conversion_rule returns the first rule of the settings for the
\* exact pair when there is one, otherwise the first rule for the pair of
\* the canonical names, otherwise nothing; a returned rule carries the
\* from and to formats of the call, not those of the rule it was found by.
C23_RuleLookupOrder ==
    (mode = "rules" /\ fg.lookup.asked) =>
      LET rules == fg.rule_list
          from == Upper(fg.lookup.from)
          to == Upper(fg.lookup.to)
          exact == { i \in DOMAIN rules : rules[i].from = from /\ rules[i].to = to }
          canonical ==
              { i \in DOMAIN rules :
                  /\ rules[i].from = GetCanonicalFormat(fg.settings, from)
                  /\ rules[i].to = GetCanonicalFormat(fg.settings, to) }
          first(positions) == CHOOSE i \in positions : \A j \in positions : i <= j
          found == IF exact # {} THEN first(exact)
                   ELSE IF canonical # {} THEN first(canonical) ELSE 0
          returned == fg.lookup.returned
      IN IF found = 0 THEN returned = NoRule
         ELSE /\ returned.rule_index = found
              /\ returned.command = rules[found].command
              /\ returned.from = from /\ returned.to = to

\* the rule JPEG -> PNG is found for the call (jpg, DMG) through the aliases
\* JPG -> JPEG and DMG -> PNG, after a rule for another pair, and is returned
\* as a rule from JPG to DMG
C23_Witness ==
    /\ mode = "rules" /\ fg.lookup.asked
    /\ fg.lookup.from = "jpg" /\ fg.lookup.to = "DMG"
    /\ Len(fg.rule_list) = 2
    /\ fg.rule_list[2] = [from |-> "JPEG", to |-> "PNG", command |-> TRUE]
    /\ fg.lookup.returned = ConversionRule("JPG", "DMG", "special", TRUE, 2)

\* C28: when the step of a chained plan that fails is an injected existence
\* check and a step ran before it, the reported error text quotes the error
\* output of the step before it and not the check's own error
C28_FailedCheckReportsPredecessor ==
    \A c \in DOMAIN convs :
       LET r == convs[c].res
       IN (/\ IsRegularChain /\ r.done /\ ~r.success /\ ~r.cancelled
           /\ r.command_step > 1
           /\ setup.steps[r.command_step] = "test")
          => /\ r.message.kind = "validation_failed"
             /\ r.message.step = r.command_step - 1

C28_Witness ==
    \E c \in DOMAIN convs :
       /\ IsRegularChain /\ convs[c].res.done
       /\ convs[c].res.command_step = 3
       /\ setup.steps[3] = "test"
       /\ convs[c].res.message.kind = "validation_failed"
       /\ convs[c].res.message.step = 2

\* C26: when the template holds a placeholder that cannot be resolved, the
\* compilation fails fast: the temp resources acquired for the conversion are
\* released, no subprocess is spawned for it, and the error the caller gets
\* from the conversion is the template error
C26_UnresolvedPlaceholderFailsFast ==
    setup.unresolved =>
       \A c \in DOMAIN convs :
          /\ \A t \in DOMAIN temps : temps[t].owner = c => ~temps[t].live
          /\ \A p \in DOMAIN procs : procs[p].conv # c
          /\ convs[c].pc = "returned"
                => convs[c].error_message.kind = "template_error"

\* C30: with a template that names both the temp directory and the temp file
\* placeholder, both temp resources acquired for a conversion are released
\* when the conversion has finished, and both are released once the
\* compilation has failed after acquiring them
C30_BothTempsReleased ==
    setup.tmpl = "both" =>
       \A c \in DOMAIN convs :
          (convs[c].pc = "returned" \/ setup.unresolved)
             => \A t \in DOMAIN temps :
                   (temps[t].owner = c /\ temps[t].kind \in {"dir", "file"})
                      => ~temps[t].live

\* C29: when the validation of a batch leaves no usable file, or no target
\* format is selected, the batch ends aborted: no output directory was
\* created, no converter constructed and no subprocess spawned
C29_AbortedBatchHasNoEffects ==
    (ctl.pc # "run" /\ (nfiles = 0 \/ ctl.selection # "selected"))
       => /\ ctl.run = "aborted" /\ ctl.pc = "done"
          /\ ctl.output_directory = "none"
          /\ convs = <<>> /\ futures = <<>>
          /\ procs = <<>>
          /\ temps = <<>>

C29_Witness ==
    /\ ctl.run = "aborted" /\ ctl.selection = "declined"
    /\ nfiles = 2 /\ setup.output_dir = "out"

\* C25: a command segment (here with its quotations closed) is run through
\* the shell exactly when a pipe, logical OR or redirection character of it
\* stands outside quotes; otherwise the command is the list of its words
C25_ShellExactlyForUnquotedOperator ==
    LET s == tp.command_str
        quotes_before(i) == Cardinality({ j \in 1..(i - 1) : s[j] = "'" })
        well_formed == Cardinality({ j \in DOMAIN s : s[j] = "'" }) % 2 = 0
        unquoted_operator ==
            \E i \in DOMAIN s : s[i] \in {"|", ">"} /\ quotes_before(i) % 2 = 0
    IN (tp.parsed /\ well_formed)
          => /\ tp.is_shell_command = unquoted_operator
             /\ ~unquoted_operator => tp.command = ShlexSplit(s).argv

\* C27: for a chain that acquired a temp resource, the compiled chain holds
\* an existence check of the source path right before every mv, cp or cat
\* step whose source argument is the temp path, and the original steps are
\* all there, unchanged and in their order
C27_CheckBeforeEveryTempConsumer ==
    LET checks == { <<"test", "-f", "tmp">> }
        IsOriginal(step) == step \notin checks
        Sources(step) ==
            { step[k] : k \in 2..(Len(step) - 1) } \ {"-f", ">"}
        Consumes(step) == step[1] \in {"mv", "cp", "cat"} /\ "tmp" \in Sources(step)
        v == tp.validated_steps
    IN tp.injected
          => /\ SelectSeq(v, IsOriginal) = tp.steps
             /\ \A i \in DOMAIN tp.steps :
                   Consumes(tp.steps[i])
                      => \E k \in 2..Len(v) :
                            v[k] = tp.steps[i] /\ v[k - 1] \in checks

\* C34: at every point of a batch the current index lies between 0 and the
\* number of files and equals the success count plus the number of error
\* entries; a step leaves the index alone or raises it by exactly one, and
\* then exactly one result was recorded
C34_IndexAccounting ==
    /\ [](mode = "batch"
            => /\ 0 <= state.current_index /\ state.current_index <= nfiles
               /\ state.successful_conversions + Len(errors) = state.current_index)
    /\ [][mode = "batch"
            => \/ /\ state'.current_index = state.current_index
                  /\ state'.successful_conversions = state.successful_conversions
                  /\ Len(errors') = Len(errors)
               \/ /\ state'.current_index = state.current_index + 1
                  /\ state'.successful_conversions + Len(errors')
                       = state.successful_conversions + Len(errors) + 1]_vars

C34_Witness ==
    /\ mode = "batch" /\ nfiles = 3 /\ state.current_index = 2
    /\ state.successful_conversions = 1 /\ Len(errors) = 1
    /\ errors[1].file = 0

\* C36: when a batch has ended, completed or cancelled, the success count it
\* reports is the number of files whose conversion returned success, a file
\* whose worker had returned success before the cancellation was processed
\* included
C36_SuccessCountIsReturnedSuccesses ==
    (mode = "batch" /\ ctl.pc = "done")
       => state.successful_conversions
            = Cardinality({ k \in DOMAIN futures :
                              futures[k].st = "finished" /\ futures[k].success })

\* C32: when a batch that created an output directory has returned and no
\* file was converted into the directory (every file failed, or the batch
\* was cancelled before a success), the empty directory is gone
C32_EmptyOutputDirectoryRemoved ==
    (/\ mode = "batch" /\ ctl.pc = "done" /\ ctl.run = "started"
     /\ setup.output_dir # "none"
     /\ state.successful_conversions = 0
     /\ ~\E path \in fs : path.dir = setup.output_dir)
       => ctl.output_directory = "none"

\* C39: when files had failed before a batch was cancelled, the errors
\* recorded for them are reported to the operator when the batch ends
C39_ErrorsReportedAfterCancel ==
    (mode = "batch" /\ ctl.pc = "done" /\ state.cancelled /\ errors # <<>>)
       => ctl.errors_reported

\* C31: every temp resource acquired when the Converter of a file of a
\* batch was constructed has been released when BatchAction.run has
\* returned, also when the cancellation was requested after the task was
\* submitted and before the worker began convert()
C31_BatchTempsReleasedAtReturn ==
    (mode = "batch" /\ ctl.pc = "done")
       => \A t \in DOMAIN temps : ~temps[t].live

\* C33: a failed or cancelled conversion deletes no filesystem entry that
\* existed before it was planned: every path that a step removes is the
\* target path of a Converter (which did not exist when the Converter chose
\* it); in particular, with a batch output directory, no file of the source
\* directory is ever removed
C33_OnlyOwnTargetDeleted ==
    [][\A path \in fs \ fs' :
          /\ \E c \in DOMAIN convs : convs[c].target = path
          /\ setup.output_dir # "none" => path.dir # "src"]_vars

\* C35: when a single-file convert() that was cancelled has returned (it
\* deleted the target file and released its temp resources), the worker
\* thread is not running and no subprocess of the conversion is running, so
\* the target path stays absent
C35_NothingRunsAfterCancelledReturn ==
    (/\ mode = "single" /\ convs # <<>>
     /\ convs[1].pc = "returned" /\ convs[1].outcome = "cancelled")
       => /\ pm.thread # "alive"
          /\ \A p \in DOMAIN procs : procs[p].st # "alive"
          /\ convs[1].target \notin fs

\* C37: every format that get_common_formats offers for a batch is an
\* available target of every source format of the batch that is not that
\* format itself (nor, with canonical formats, an alias of it)
C37_OfferedTargetLegalForEverySource ==
    (mode = "formats" /\ fg.batch.asked)
       => \A t \in fg.batch.result :
             \A s \in fg.batch.source_formats :
                (s # t /\ GetCanonicalFormat(fg.settings, s) # t)
                   => t \in GetAvailableFormats(fg.settings, s)

\* C38 as stated: within one batch no two files are assigned the same
\* target path
C38_DistinctTargetsInBatch ==
    mode = "batch"
       => \A c, d \in DOMAIN convs :
             convs[c].file # convs[d].file => convs[c].target # convs[d].target

\* C38, amended: when a later file of a batch is assigned the target path
\* of an earlier file, the conversion of the earlier file has returned
\* without leaving an output at that path (it failed, or its tool wrote
\* nothing); a later file is never assigned the path of an output that an
\* earlier file of the batch produced, so it cannot overwrite or delete it
C38_LaterFileKeepsEarlierOutput ==
    mode = "batch"
       => \A c, d \in DOMAIN convs :
             (c < d /\ convs[c].file # convs[d].file
                /\ convs[c].target = convs[d].target)
                => /\ convs[c].pc = "returned"
                   /\ ~(convs[c].outcome = "success" /\ convs[c].target_at_return)

\* a.jpg and a.bmp were both converted into the output directory: the
\* output of a.jpg is a.png, a.bmp was given the numbered name, and both
\* outputs exist
C38_Witness ==
    /\ mode = "batch" /\ setup.output_dir = "out" /\ Len(convs) >= 2
    /\ convs[1].file = 0 /\ convs[1].outcome = "success"
    /\ convs[2].file = 1 /\ convs[2].outcome = "success"
    /\ convs[1].target = Path("out", <<"a", ".png">>)
    /\ convs[2].target = Path("out", NumberedName(<<"a">>, 1, <<".png">>))
    /\ {convs[1].target, convs[2].target} \subseteq fs

====
